---- MODULE Spec2Model ----
(***************************************************************************)
(* A model of the layered raster editor of src/src/mainwindow.cpp (the     *)
(* second, later translation unit of the file, lines 823-2101) and         *)
(* src/include/mainwindow.h: the layer stack with its per-layer undo/redo  *)
(* histories, the canvas tool state machine, the compositor, the           *)
(* selection clipboard and the filters.                                    *)
(*                                                                         *)
(* Every handler is an operator from the program state (a record with one  *)
(* field per member of MainWindow and Canvas) to the state after the       *)
(* handler returned, so that a handler that calls another is the           *)
(* composition of the two.  Indices are 0-based as in the code: layer i    *)
(* of the QVector is s.layers[i+1].                                        *)
(***************************************************************************)
EXTENDS Integers, Sequences, FiniteSets, TLC

\* ------------------------------------------------------------------ bounds
MAX_UNDO == 20

MaxLayers == 3

\* The number of handlers a behaviour of Spec runs.
MaxSteps == 3

\* The snapshots (undo plus redo) a layer may hold in a behaviour of SpecHist.
MaxHistory == 22

\* The initial layers are BaseW x BaseH (1600 x 1200 in the code, scaled).
BaseSize == [w |-> 2, h |-> 1]

\* ------------------------------------------------------------------ pixels
\* A pixel is <<r, g, b, a>>, premultiplied (Format_ARGB32_Premultiplied).
Transparent == <<0, 0, 0, 0>>
White == <<255, 255, 255, 255>>
Black == <<0, 0, 0, 255>>
Red == <<255, 0, 0, 255>>
HalfRed == <<128, 0, 0, 128>>

Max(a, b) == IF a >= b THEN a ELSE b
Min(a, b) == IF a <= b THEN a ELSE b
Last(q) == q[Len(q)]
Front(q) == SubSeq(q, 1, Len(q) - 1)

\* Qt's qt_div_255: the rounding division by 255 of the raster engine.
Div255(x) == (x + (x \div 256) + 128) \div 256

\* BYTE_MUL: every channel of p times a / 255.
ByteMul(p, a) == [i \in 1..4 |-> Div255(p[i] * a)]

\* CompositionMode_SourceOver of source pixel src on dst, premultiplied.
SourceOver(src, dst) == [i \in 1..4 |-> src[i] + Div255(dst[i] * (255 - src[4]))]

\* ------------------------------------------------------------------ images
Coords(w, h) == (0..(w - 1)) \X (0..(h - 1))

Filled(w, h, c) == [w |-> w, h |-> h, px |-> [p \in Coords(w, h) |-> c]]

\* QImage(): the null image.
NullImage == Filled(0, 0, Transparent)

isNullImage(img) == img.w = 0 \/ img.h = 0

NoPoint == <<-1, -1>>

\* QRect keeps its two corners, both inclusive.
MkRect(a, b) == [x1 |-> a[1], y1 |-> a[2], x2 |-> b[1], y2 |-> b[2]]
RectWidth(r) == r.x2 - r.x1 + 1
RectHeight(r) == r.y2 - r.y1 + 1
\* QRect(): x2 = x1 - 1, y2 = y1 - 1.
NullRect == [x1 |-> 0, y1 |-> 0, x2 |-> -1, y2 |-> -1]
RectIsNull(r) == RectWidth(r) = 0 /\ RectHeight(r) = 0
RectTopLeft(r) == <<r.x1, r.y1>>
RectPixels(r) == {p \in (r.x1..r.x2) \X (r.y1..r.y2) : TRUE}

\* QPainter::drawImage(pos, src) on dst with the painter's opacity as the
\* raster engine's constant alpha ca (255: plain alpha-over).
DrawImage(dst, pos, src, ca) ==
    [dst EXCEPT !.px = [p \in Coords(dst.w, dst.h) |->
        LET q == <<p[1] - pos[1], p[2] - pos[2]>> IN
        IF q \in Coords(src.w, src.h)
        THEN SourceOver(ByteMul(src.px[q], ca), dst.px[p])
        ELSE dst.px[p]]]

\* A painter whose opacity is never set: every layer is painted in full.
ConstAlphaUnset(op) == 255

\* QPainter::setOpacity: opacity in hundredths to the engine's constant alpha.
ConstAlpha(op) == ((((op * 256 * 2) + 100) \div 200) * 255) \div 256

\* The pixels a one-pixel pen covers on the segment a-b (the points of the
\* bounding box on the line through a and b).
SegmentPixels(a, b) ==
    {p \in (Min(a[1], b[1])..Max(a[1], b[1])) \X (Min(a[2], b[2])..Max(a[2], b[2])) :
        (b[1] - a[1]) * (p[2] - a[2]) = (b[2] - a[2]) * (p[1] - a[1])}

\* Painting colour c on the pixels of set ps that lie in the image.
PaintPixels(img, ps, c) ==
    [img EXCEPT !.px = [p \in Coords(img.w, img.h) |->
        IF p \in ps THEN SourceOver(c, img.px[p]) ELSE img.px[p]]]

\* CompositionMode_Clear on the pixels of set ps.
ClearPixels(img, ps) ==
    [img EXCEPT !.px = [p \in Coords(img.w, img.h) |->
        IF p \in ps THEN Transparent ELSE img.px[p]]]

\* QImage::transformed(rotate(90)): a quarter turn clockwise.
RotatedRight(img) ==
    [w |-> img.h, h |-> img.w,
     px |-> [p \in Coords(img.h, img.w) |-> img.px[<<p[2], img.h - 1 - p[1]>>]]]

\* QImage::transformed(rotate(-90)): a quarter turn counter-clockwise.
RotatedLeft(img) ==
    [w |-> img.h, h |-> img.w,
     px |-> [p \in Coords(img.h, img.w) |-> img.px[<<img.w - 1 - p[2], p[1]>>]]]

\* QImage::mirrored(horizontal, vertical).
Mirrored(img, horizontal, vertical) ==
    [img EXCEPT !.px = [p \in Coords(img.w, img.h) |->
        img.px[<<IF horizontal THEN img.w - 1 - p[1] ELSE p[1],
                 IF vertical THEN img.h - 1 - p[2] ELSE p[2]>>]]]

\* QImage::copy(rect): the null image for an empty rect, transparent outside.
CopyRect(img, r) ==
    IF RectWidth(r) <= 0 \/ RectHeight(r) <= 0 THEN NullImage
    ELSE [w |-> RectWidth(r), h |-> RectHeight(r),
          px |-> [p \in Coords(RectWidth(r), RectHeight(r)) |->
              LET q == <<p[1] + r.x1, p[2] + r.y1>> IN
              IF q \in Coords(img.w, img.h) THEN img.px[q] ELSE Transparent]]

\* ------------------------------------------------------------------ state
VARIABLES
    layers,            \* MainWindow::layers
    activeLayerIndex,  \* MainWindow::activeLayerIndex
    selectionBuffer,   \* MainWindow::selectionBuffer
    statusText,        \* statusLabel's text
    listRows,          \* layerListWidget's items, row 0 first
    currentRow,        \* layerListWidget's current row
    brushColor,        \* MainWindow::brushColor
    composite,         \* Canvas::composite
    targetImg,         \* Canvas::targetImg: the index of the layer it points into, -1 for nullptr
    lastPoint,         \* Canvas::lastPoint
    startPoint,        \* Canvas::startPoint
    penColor,          \* Canvas::penColor
    eraserMode,        \* Canvas::eraserMode
    currentTool,       \* Canvas::currentTool
    selecting,         \* Canvas::selecting
    hasSelection,      \* Canvas::_hasSelection
    selectionRect,     \* Canvas::selectionRect
    lassoPolygon,      \* Canvas::lassoPolygon
    textItems,         \* Canvas::textItems
    activeTextIndex,   \* Canvas::activeTextIndex
    zoom,              \* Canvas::zoom, in tenths
    imageOffset,       \* Canvas::imageOffset
    buttonDown,        \* the left mouse button is held
    steps,             \* handlers run so far
    lastOp,            \* the handler that ran last, with its outcome
    strokeOpen,        \* strokeStarted was emitted in the gesture under way
    lastKind,          \* what the last handler was for the run of mutations
    preUndo,           \* after an undo: the active layer as it was before it
    roundTrip,         \* after a redo that follows an undo that restored a snapshot:
                       \* the active layer as it was before that undo
    runPre,            \* the buffers before each mutation of the run under way
    undoing,           \* the run under way has been followed by an undo
    pressedAt,         \* under SpecMap: the display point of the last press;
                       \* under SpecDraw: of the last pointer event
    copiedAt           \* the top-left of the selection at the last copy or cut that
                       \* captured it (followed under SpecClip)

vars == <<layers, activeLayerIndex, selectionBuffer, statusText, listRows, currentRow,
          brushColor, composite, targetImg, lastPoint, startPoint, penColor, eraserMode,
          currentTool, selecting, hasSelection, selectionRect, lassoPolygon, textItems,
          activeTextIndex, zoom, imageOffset, buttonDown, steps, lastOp,
          strokeOpen, lastKind, preUndo, roundTrip, runPre, undoing, pressedAt, copiedAt>>

\* The program state as one record.
St ==
    [layers |-> layers, activeLayerIndex |-> activeLayerIndex,
     selectionBuffer |-> selectionBuffer, statusText |-> statusText,
     listRows |-> listRows, currentRow |-> currentRow, brushColor |-> brushColor,
     composite |-> composite, targetImg |-> targetImg, lastPoint |-> lastPoint,
     startPoint |-> startPoint, penColor |-> penColor, eraserMode |-> eraserMode,
     currentTool |-> currentTool, selecting |-> selecting, hasSelection |-> hasSelection,
     selectionRect |-> selectionRect, lassoPolygon |-> lassoPolygon,
     textItems |-> textItems, activeTextIndex |-> activeTextIndex, zoom |-> zoom,
     imageOffset |-> imageOffset]

\* The next state is the record s.
Becomes(s) ==
    /\ layers' = s.layers
    /\ activeLayerIndex' = s.activeLayerIndex
    /\ selectionBuffer' = s.selectionBuffer
    /\ statusText' = s.statusText
    /\ listRows' = s.listRows
    /\ currentRow' = s.currentRow
    /\ brushColor' = s.brushColor
    /\ composite' = s.composite
    /\ targetImg' = s.targetImg
    /\ lastPoint' = s.lastPoint
    /\ startPoint' = s.startPoint
    /\ penColor' = s.penColor
    /\ eraserMode' = s.eraserMode
    /\ currentTool' = s.currentTool
    /\ selecting' = s.selecting
    /\ hasSelection' = s.hasSelection
    /\ selectionRect' = s.selectionRect
    /\ lassoPolygon' = s.lassoPolygon
    /\ textItems' = s.textItems
    /\ activeTextIndex' = s.activeTextIndex
    /\ zoom' = s.zoom
    /\ imageOffset' = s.imageOffset

ActiveInRange(s) == s.activeLayerIndex >= 0 /\ s.activeLayerIndex < Len(s.layers)

\* layers[activeLayerIndex]
ActiveLayer(s) == s.layers[s.activeLayerIndex + 1]

SetActiveImage(s, img) == [s EXCEPT !.layers[s.activeLayerIndex + 1].image = img]


\* ------------------------------------------------------------------ compositor
RECURSIVE PaintLayersFrom(_, _, _)
\* The loop of compositeLayers from layer i (0-based) on, painting onto comp.
PaintLayersFrom(ls, i, comp) ==
    IF i >= Len(ls) THEN comp
    ELSE PaintLayersFrom(ls, i + 1,
             DrawImage(comp, <<0, 0>>, ls[i + 1].image, ConstAlpha(ls[i + 1].opacity)))

\* What compositeLayers paints for the layers ls.
Composed(ls) == PaintLayersFrom(ls, 1, ls[1].image)

compositeLayers(s) ==
    IF s.layers = <<>> THEN s
    ELSE [s EXCEPT !.composite = Composed(s.layers)]

\* ------------------------------------------------------------------ canvas target
ensureTargetSizeMatchesWidget(s) ==
    IF s.targetImg = -1 THEN s
    ELSE LET T == s.layers[s.targetImg + 1].image
             newW == Max(T.w, s.composite.w)
             newH == Max(T.h, s.composite.h)
         IN IF T.w < s.composite.w \/ T.h < s.composite.h
            THEN [s EXCEPT !.layers[s.targetImg + 1].image =
                     DrawImage(Filled(newW, newH, Transparent), <<0, 0>>, T, 255)]
            ELSE s

setTargetImage(s, target) == ensureTargetSizeMatchesWidget([s EXCEPT !.targetImg = target])

\* ------------------------------------------------------------------ undo / redo
\* QVector::remove(0) after the append of pushUndoForActiveLayer.
TrimUndo(stack) == IF Len(stack) > MAX_UNDO THEN Tail(stack) ELSE stack

pushUndoForActiveLayer(s) ==
    IF ~ActiveInRange(s) THEN s
    ELSE [s EXCEPT !.layers[s.activeLayerIndex + 1].undoStack =
             TrimUndo(Append(@, ActiveLayer(s).image))]

clearRedoForActiveLayer(s) ==
    IF ~ActiveInRange(s) THEN s
    ELSE [s EXCEPT !.layers[s.activeLayerIndex + 1].redoStack = <<>>]

onStrokeStarted(s) == clearRedoForActiveLayer(pushUndoForActiveLayer(s))

\* A strokeFinished slot that does not rebuild the composite.
onStrokeFinishedIdle(s) == s

onStrokeFinished(s) == compositeLayers(s)

\* undo() that reports an empty stack with the message of redo().
undoWrongStatus(s) ==
    IF ~ActiveInRange(s) THEN s
    ELSE LET L == ActiveLayer(s) IN
         IF L.undoStack = <<>> THEN [s EXCEPT !.statusText = <<"Nothing to redo">>]
         ELSE LET s1 == [s EXCEPT !.layers[s.activeLayerIndex + 1] =
                            [L EXCEPT !.redoStack = Append(L.redoStack, L.image),
                                      !.undoStack = Front(L.undoStack),
                                      !.image = Last(L.undoStack)]]
              IN [compositeLayers(s1) EXCEPT !.statusText = <<"Undo on ">> \o L.name]

\* undo() that takes the topmost layer instead of the active one.
undoTopLayer(s) ==
    IF s.layers = <<>> THEN s
    ELSE LET L == s.layers[Len(s.layers)] IN
         IF L.undoStack = <<>> THEN [s EXCEPT !.statusText = <<"Nothing to undo">>]
         ELSE LET s1 == [s EXCEPT !.layers[Len(s.layers)] =
                            [L EXCEPT !.redoStack = Append(L.redoStack, L.image),
                                      !.undoStack = Front(L.undoStack),
                                      !.image = Last(L.undoStack)]]
              IN [compositeLayers(s1) EXCEPT !.statusText = <<"Undo on ">> \o L.name]

undo(s) ==
    IF ~ActiveInRange(s) THEN s
    ELSE LET L == ActiveLayer(s) IN
         IF L.undoStack = <<>> THEN [s EXCEPT !.statusText = <<"Nothing to undo">>]
         ELSE LET s1 == [s EXCEPT !.layers[s.activeLayerIndex + 1] =
                            [L EXCEPT !.redoStack = Append(L.redoStack, L.image),
                                      !.undoStack = Front(L.undoStack),
                                      !.image = Last(L.undoStack)]]
              IN [compositeLayers(s1) EXCEPT !.statusText = <<"Undo on ">> \o L.name]

\* redo() that does not put the current buffer back on the undo stack.
redoDropsCurrent(s) ==
    IF ~ActiveInRange(s) THEN s
    ELSE LET L == ActiveLayer(s) IN
         IF L.redoStack = <<>> THEN [s EXCEPT !.statusText = <<"Nothing to redo">>]
         ELSE LET s1 == [s EXCEPT !.layers[s.activeLayerIndex + 1] =
                            [L EXCEPT !.redoStack = Front(L.redoStack),
                                      !.image = Last(L.redoStack)]]
              IN [compositeLayers(s1) EXCEPT !.statusText = <<"Redo on ">> \o L.name]

redo(s) ==
    IF ~ActiveInRange(s) THEN s
    ELSE LET L == ActiveLayer(s) IN
         IF L.redoStack = <<>> THEN [s EXCEPT !.statusText = <<"Nothing to redo">>]
         ELSE LET s1 == [s EXCEPT !.layers[s.activeLayerIndex + 1] =
                            [L EXCEPT !.undoStack = Append(L.undoStack, L.image),
                                      !.redoStack = Front(L.redoStack),
                                      !.image = Last(L.redoStack)]]
              IN [compositeLayers(s1) EXCEPT !.statusText = <<"Redo on ">> \o L.name]

clearCanvas(s) ==
    IF ~ActiveInRange(s) THEN s
    ELSE LET s1 == pushUndoForActiveLayer(s)
             s2 == SetActiveImage(s1, Filled(ActiveLayer(s1).image.w,
                                             ActiveLayer(s1).image.h, Transparent))
             s3 == compositeLayers(clearRedoForActiveLayer(s2))
         IN [s3 EXCEPT !.statusText = ActiveLayer(s3).name \o <<" cleared">>]

\* ------------------------------------------------------------------ transforms
rotateLeft(s) ==
    IF ~ActiveInRange(s) THEN s
    ELSE [compositeLayers(SetActiveImage(s, RotatedLeft(ActiveLayer(s).image)))
             EXCEPT !.statusText = <<"Rotated left">>]

rotateRight(s) ==
    IF ~ActiveInRange(s) THEN s
    ELSE [compositeLayers(SetActiveImage(s, RotatedRight(ActiveLayer(s).image)))
             EXCEPT !.statusText = <<"Rotated right">>]

flipHorizontal(s) ==
    IF ~ActiveInRange(s) THEN s
    ELSE [compositeLayers(SetActiveImage(s, Mirrored(ActiveLayer(s).image, TRUE, FALSE)))
             EXCEPT !.statusText = <<"Flipped horizontally">>]

flipVertical(s) ==
    IF ~ActiveInRange(s) THEN s
    ELSE [compositeLayers(SetActiveImage(s, Mirrored(ActiveLayer(s).image, FALSE, TRUE)))
             EXCEPT !.statusText = <<"Flipped vertically">>]

\* ------------------------------------------------------------------ filters
\* qGray(r, g, b)
qGray(r, g, b) == (r * 11 + g * 16 + b * 5) \div 32

\* QColor c(scan[x]): the QRgb constructor keeps the three colour bytes and
\* sets alpha to 255; QColor(g, g, g, c.alpha()).rgba() is stored as it is.
GrayPixel(p) == LET g == qGray(p[1], p[2], p[3]) IN <<g, g, g, 255>>

InvertPixel(p) == <<255 - p[1], 255 - p[2], 255 - p[3], 255>>

GrayPreview(img) == [img EXCEPT !.px = [p \in Coords(img.w, img.h) |-> GrayPixel(img.px[p])]]

InvertPreview(img) == [img EXCEPT !.px = [p \in Coords(img.w, img.h) |-> InvertPixel(img.px[p])]]

\* accepted: the result of dlg.exec() of the preview dialog.
\* grayscale() that takes the undo snapshot after it has replaced the buffer.
grayscalePushAfter(s, accepted) ==
    IF ~ActiveInRange(s) THEN s
    ELSE LET preview == GrayPreview(ActiveLayer(s).image) IN
         IF accepted
         THEN LET s1 == SetActiveImage(s, preview)
                  s2 == compositeLayers(clearRedoForActiveLayer(pushUndoForActiveLayer(s1)))
              IN [s2 EXCEPT !.statusText = <<"Grayscale applied to ">> \o ActiveLayer(s2).name]
         ELSE [s EXCEPT !.statusText = <<"Grayscale canceled">>]

grayscale(s, accepted) ==
    IF ~ActiveInRange(s) THEN s
    ELSE LET preview == GrayPreview(ActiveLayer(s).image) IN
         IF accepted
         THEN LET s1 == clearRedoForActiveLayer(pushUndoForActiveLayer(s))
                  s2 == compositeLayers(SetActiveImage(s1, preview))
              IN [s2 EXCEPT !.statusText = <<"Grayscale applied to ">> \o ActiveLayer(s2).name]
         ELSE [s EXCEPT !.statusText = <<"Grayscale canceled">>]

\* invertColors() that filters the layer's own buffer instead of a copy of it.
invertInPlace(s, accepted) ==
    IF ~ActiveInRange(s) THEN s
    ELSE LET preview == InvertPreview(ActiveLayer(s).image) IN
         IF accepted
         THEN LET s1 == clearRedoForActiveLayer(pushUndoForActiveLayer(s))
                  s2 == compositeLayers(SetActiveImage(s1, preview))
              IN [s2 EXCEPT !.statusText =
                     <<"Inverted colors applied to ">> \o ActiveLayer(s2).name]
         ELSE [SetActiveImage(s, preview) EXCEPT !.statusText = <<"Invert canceled">>]

invertColors(s, accepted) ==
    IF ~ActiveInRange(s) THEN s
    ELSE LET preview == InvertPreview(ActiveLayer(s).image) IN
         IF accepted
         THEN LET s1 == clearRedoForActiveLayer(pushUndoForActiveLayer(s))
                  s2 == compositeLayers(SetActiveImage(s1, preview))
              IN [s2 EXCEPT !.statusText =
                     <<"Inverted colors applied to ">> \o ActiveLayer(s2).name]
         ELSE [s EXCEPT !.statusText = <<"Invert canceled">>]


\* ------------------------------------------------------------------ layer panel
Digits == <<"1", "2", "3", "4", "5", "6", "7", "8", "9">>

\* QString::arg(int), for the layer numbers the bounds allow.
NumStr(n) == IF n = 0 THEN "0" ELSE Digits[n]

RemoveAt(q, i) == SubSeq(q, 1, i) \o SubSeq(q, i + 2, Len(q))

\* activateLayer without the call of canvas->setTargetImage.
activateLayerKeepsTarget(s, uiRow) ==
    LET idx == Len(s.layers) - 1 - uiRow IN
    IF idx < 0 \/ idx >= Len(s.layers) THEN s
    ELSE LET s1 == [s EXCEPT !.activeLayerIndex = idx]
         IN [s1 EXCEPT !.statusText = <<"Active layer: ">> \o ActiveLayer(s1).name]

activateLayer(s, uiRow) ==
    LET idx == Len(s.layers) - 1 - uiRow IN
    IF idx < 0 \/ idx >= Len(s.layers) THEN s
    ELSE LET s1 == setTargetImage([s EXCEPT !.activeLayerIndex = idx], idx)
         IN [s1 EXCEPT !.statusText = <<"Active layer: ">> \o ActiveLayer(s1).name]

\* QListWidget::insertItem(0, name): the current item keeps being current,
\* one row further down; no currentRowChanged is emitted.
insertItem0(s, name) ==
    [s EXCEPT !.listRows = <<name>> \o @,
              !.currentRow = IF @ >= 0 THEN @ + 1 ELSE @]

\* QListWidget::setCurrentRow(row): currentRowChanged(row), connected to
\* activateLayer, is emitted when the current row changes.
setCurrentRow(s, row) ==
    IF s.currentRow = row THEN s
    ELSE activateLayer([s EXCEPT !.currentRow = row], row)

\* QListWidget::takeItem(row).  Taking the current row makes the row below it
\* (or, for the last row, the row above it) current and emits
\* currentRowChanged; emitOld tells whether the signal carries that row's
\* number before the removal or after it.
takeItem(s, row, emitOld) ==
    LET n == Len(s.listRows) IN
    IF row < 0 \/ row >= n THEN s
    ELSE IF row = s.currentRow
         THEN LET after == IF row + 1 < n THEN row ELSE row - 1
                  before == IF row + 1 < n THEN row + 1 ELSE row - 1
              IN activateLayer([s EXCEPT !.listRows = RemoveAt(@, row),
                                         !.currentRow = after],
                               IF emitOld THEN before ELSE after)
         ELSE [s EXCEPT !.listRows = RemoveAt(@, row),
                        !.currentRow = IF row < @ THEN @ - 1 ELSE @]

NewLayer(name, img) ==
    [name |-> name, image |-> img, undoStack |-> <<>>, redoStack |-> <<>>, opacity |-> 100]

addLayer(s) ==
    LET l == NewLayer(<<"Layer ", NumStr(Len(s.layers))>>,
                      Filled(s.layers[1].image.w, s.layers[1].image.h, Transparent))
        s1 == [s EXCEPT !.layers = Append(@, l)]
        s2 == setCurrentRow(insertItem0(s1, l.name), 0)
        s3 == [s2 EXCEPT !.activeLayerIndex = Len(s2.layers) - 1]
        s4 == compositeLayers(setTargetImage(s3, s3.activeLayerIndex))
    IN [s4 EXCEPT !.statusText = <<"Added ">> \o l.name]

\* removeLayer() without the refusal for a single layer; the list ends empty
\* and no layer is left to be the target.
removeLayerNoFloor(s, emitOld) ==
    IF Len(s.layers) < 1 THEN s
    ELSE IF Len(s.layers) = 1
    THEN [s EXCEPT !.layers = <<>>, !.listRows = <<>>, !.currentRow = -1,
                   !.activeLayerIndex = -1, !.targetImg = -1,
                   !.statusText = <<"Layer removed">>]
    ELSE LET idx == s.activeLayerIndex
             s1 == [s EXCEPT !.layers = RemoveAt(@, idx)]
             uiIndex == Len(s1.layers) - idx
             s2 == IF uiIndex >= 0 /\ uiIndex < Len(s1.listRows)
                   THEN takeItem(s1, uiIndex, emitOld) ELSE s1
             s3 == setCurrentRow([s2 EXCEPT !.activeLayerIndex = Len(s2.layers) - 1], 0)
             s4 == compositeLayers(setTargetImage(s3, s3.activeLayerIndex))
         IN [s4 EXCEPT !.statusText = <<"Layer removed, active: ">> \o ActiveLayer(s4).name]

\* removeLayer() that leaves activeLayerIndex and the canvas target to the
\* list widget's signal instead of setting them itself.
removeLayerKeepsActive(s, emitOld) ==
    IF Len(s.layers) <= 1 THEN s
    ELSE LET idx == s.activeLayerIndex
             s1 == [s EXCEPT !.layers = RemoveAt(@, idx)]
             uiIndex == Len(s1.layers) - idx
             s2 == IF uiIndex >= 0 /\ uiIndex < Len(s1.listRows)
                   THEN takeItem(s1, uiIndex, emitOld) ELSE s1
         IN [compositeLayers(s2) EXCEPT !.statusText = <<"Layer removed">>]

removeLayer(s, emitOld) ==
    IF Len(s.layers) <= 1 THEN s
    ELSE LET idx == s.activeLayerIndex
             s1 == [s EXCEPT !.layers = RemoveAt(@, idx)]
             uiIndex == Len(s1.layers) - idx
             s2 == IF uiIndex >= 0 /\ uiIndex < Len(s1.listRows)
                   THEN takeItem(s1, uiIndex, emitOld) ELSE s1
             s3 == setCurrentRow([s2 EXCEPT !.activeLayerIndex = Len(s2.layers) - 1], 0)
             s4 == compositeLayers(setTargetImage(s3, s3.activeLayerIndex))
         IN [s4 EXCEPT !.statusText = <<"Layer removed, active: ">> \o ActiveLayer(s4).name]

\* A duplicateLayer that inserts the row of the copy and does not make it current.
duplicateLayerKeepsRow(s) ==
    IF ~ActiveInRange(s) THEN s
    ELSE LET copy == [ActiveLayer(s) EXCEPT !.name = @ \o <<" Copy">>]
             s1 == [s EXCEPT !.layers = Append(@, copy)]
             s2 == insertItem0(s1, copy.name)
             s3 == [s2 EXCEPT !.activeLayerIndex = Len(s2.layers) - 1]
             s4 == compositeLayers(setTargetImage(s3, s3.activeLayerIndex))
         IN [s4 EXCEPT !.statusText = <<"Layer duplicated: ">> \o copy.name]

duplicateLayer(s) ==
    IF ~ActiveInRange(s) THEN s
    ELSE LET copy == [ActiveLayer(s) EXCEPT !.name = @ \o <<" Copy">>]
             s1 == [s EXCEPT !.layers = Append(@, copy)]
             s2 == setCurrentRow(insertItem0(s1, copy.name), 0)
             s3 == [s2 EXCEPT !.activeLayerIndex = Len(s2.layers) - 1]
             s4 == compositeLayers(setTargetImage(s3, s3.activeLayerIndex))
         IN [s4 EXCEPT !.statusText = <<"Layer duplicated: ">> \o copy.name]

deleteLayer(s, emitOld) ==
    IF Len(s.layers) <= 1 THEN s
    ELSE LET idx == s.activeLayerIndex
             s1 == [s EXCEPT !.layers = RemoveAt(@, idx)]
             uiIndex == Len(s1.listRows) - 1 - idx
             s2 == takeItem(s1, uiIndex, emitOld)
             s3 == setCurrentRow([s2 EXCEPT !.activeLayerIndex = Len(s2.layers) - 1], 0)
             s4 == compositeLayers(setTargetImage(s3, s3.activeLayerIndex))
         IN [s4 EXCEPT !.statusText = <<"Layer removed, active: ">> \o ActiveLayer(s4).name]

\* A renameLayer that renames the layer and leaves the row of the list as it was.
renameLayerListStale(s, ok, newName) ==
    IF ok /\ newName # <<>>
    THEN [s EXCEPT !.layers[s.activeLayerIndex + 1].name = newName,
                   !.statusText = <<"Layer renamed: ">> \o newName]
    ELSE s

\* ok, newName: the result of QInputDialog::getText.
renameLayer(s, ok, newName) ==
    IF ok /\ newName # <<>>
    THEN LET uiIndex == Len(s.listRows) - 1 - s.activeLayerIndex IN
         [s EXCEPT !.layers[s.activeLayerIndex + 1].name = newName,
                   !.listRows[uiIndex + 1] = newName,
                   !.statusText = <<"Layer renamed: ">> \o newName]
    ELSE s

\* QString::arg(double) for the opacities the dialog is given here.
PercentStr(op) == CASE op = 0 -> "0" [] op = 50 -> "0.5" [] op = 100 -> "1" [] OTHER -> "other"

\* ok, op: the result of QInputDialog::getDouble, op in hundredths.
changeLayerOpacity(s, ok, op) ==
    IF ok
    THEN [compositeLayers([s EXCEPT !.layers[s.activeLayerIndex + 1].opacity = op])
             EXCEPT !.statusText = <<"Opacity: ", PercentStr(op)>>]
    ELSE s

\* The part of onLayerContextMenu before the chosen action runs, for the item
\* at row uiIndex.
contextMenuTarget(s, uiIndex) ==
    LET layerIndex == Len(s.layers) - 1 - uiIndex
    IN setTargetImage([s EXCEPT !.activeLayerIndex = layerIndex], layerIndex)

\* selected: "none" (the menu was dismissed) or the chosen action; input: what
\* the dialogs and the list widget answer.
onLayerContextMenu(s, uiIndex, selected, input) ==
    IF uiIndex < 0 \/ uiIndex >= Len(s.listRows) \/ selected = "none" THEN s
    ELSE LET s1 == contextMenuTarget(s, uiIndex) IN
         CASE selected = "Duplicate Layer" -> duplicateLayer(s1)
           [] selected = "Delete Layer" -> deleteLayer(s1, input.emitOld)
           [] selected = "Rename Layer" -> renameLayer(s1, input.ok, input.name)
           [] selected = "Change Opacity" -> changeLayerOpacity(s1, input.ok, input.op)

\* loaded: the decoded image, or the null image when QImage::load fails;
\* fileName: <<>> when the file dialog was cancelled.
openFile(s, fileName, loaded) ==
    IF fileName = <<>> THEN s
    ELSE IF isNullImage(loaded) THEN s
    ELSE LET s1 == [s EXCEPT !.layers[s.activeLayerIndex + 1] =
                       [@ EXCEPT !.image = loaded, !.undoStack = <<>>, !.redoStack = <<>>]]
             s2 == setTargetImage(compositeLayers(s1), s1.activeLayerIndex)
         IN [s2 EXCEPT !.statusText = fileName \o <<" loaded into ">> \o ActiveLayer(s2).name]


\* ------------------------------------------------------------------ selection clipboard
\* QRegion(QPolygon), odd-even rule: the pixels of the scan conversion of the
\* closed polygon.  A pixel is in when an odd number of edges cross its row at
\* or left of it; an edge covers the rows from its upper end on and up to its
\* lower end, that one excluded, so left and top borders are in and right and
\* bottom borders are out.
PolygonPixels(poly, w, h) ==
    LET n == Len(poly)
        Nxt(i) == IF i = n THEN 1 ELSE i + 1
        Crosses(i, p) ==
            LET ax == poly[i][1]
                ay == poly[i][2]
                bx == poly[Nxt(i)][1]
                by == poly[Nxt(i)][2]
            IN /\ (ay <= p[2]) # (by <= p[2])
               /\ IF by > ay
                  THEN (p[2] - ay) * (bx - ax) <= (p[1] - ax) * (by - ay)
                  ELSE (p[2] - ay) * (bx - ax) >= (p[1] - ax) * (by - ay)
    IN {p \in Coords(w, h) : Cardinality({i \in 1..n : Crosses(i, p)}) % 2 = 1}

\* Canvas::getSelectionImage
getSelectionImage(s) ==
    IF ~s.hasSelection \/ s.targetImg = -1 THEN NullImage
    ELSE LET T == s.layers[s.targetImg + 1].image
             r == s.selectionRect
         IN CASE s.currentTool = "RECT_SELECT" -> CopyRect(T, r)
              [] s.currentTool = "LASSO_SELECT" ->
                    IF s.lassoPolygon = <<>> THEN NullImage
                    ELSE IF RectWidth(r) <= 0 \/ RectHeight(r) <= 0 THEN NullImage
                    ELSE LET inside == PolygonPixels(
                                 [i \in 1..Len(s.lassoPolygon) |->
                                     <<s.lassoPolygon[i][1] - r.x1, s.lassoPolygon[i][2] - r.y1>>],
                                 RectWidth(r), RectHeight(r))
                         IN [w |-> RectWidth(r), h |-> RectHeight(r),
                             px |-> [p \in Coords(RectWidth(r), RectHeight(r)) |->
                                 LET q == <<p[1] + r.x1, p[2] + r.y1>> IN
                                 IF p \in inside /\ q \in Coords(T.w, T.h)
                                 THEN T.px[q] ELSE Transparent]]
              [] OTHER -> NullImage

copySelection(s) ==
    IF ~s.hasSelection THEN s
    ELSE [s EXCEPT !.selectionBuffer = getSelectionImage(s),
                   !.statusText = <<"Selection copied">>]

cutSelection(s) ==
    IF ~s.hasSelection THEN s
    ELSE LET s1 == pushUndoForActiveLayer(s)
             s2 == [s1 EXCEPT !.selectionBuffer = getSelectionImage(s1)]
             s3 == SetActiveImage(s2, ClearPixels(ActiveLayer(s2).image,
                                                  RectPixels(s2.selectionRect)))
         IN [compositeLayers(s3) EXCEPT !.statusText = <<"Selection cut">>]

pasteSelection(s) ==
    IF isNullImage(s.selectionBuffer) THEN s
    ELSE LET s1 == pushUndoForActiveLayer(s)
             s2 == SetActiveImage(s1, DrawImage(ActiveLayer(s1).image,
                                                RectTopLeft(s1.selectionRect),
                                                s1.selectionBuffer, 255))
         IN [compositeLayers(s2) EXCEPT !.statusText = <<"Selection pasted">>]

\* ------------------------------------------------------------------ text and tools
\* QFontMetrics::boundingRect(text): one pixel per glyph of the text, one
\* pixel high.
TextBoundingRect(txt) ==
    IF txt = "AB" THEN MkRect(<<0, 0>>, <<1, 0>>) ELSE MkRect(<<0, 0>>, <<0, 0>>)

\* The pixels QPainter::drawText(position, text) paints: one pixel per glyph,
\* from the position to the right.
TextPixels(t) ==
    {<<t.position[1] + p[1], t.position[2] + p[2]>> : p \in RectPixels(TextBoundingRect(t.text))}

RECURSIVE DrawTextItems(_, _, _)
DrawTextItems(img, items, i) ==
    IF i > Len(items) THEN img
    ELSE DrawTextItems(PaintPixels(img, TextPixels(items[i]), items[i].color), items, i + 1)

\* Canvas::commitTextItems
commitTextItems(s) ==
    IF s.targetImg = -1 \/ s.textItems = <<>> THEN s
    ELSE LET s1 == [s EXCEPT !.layers[s.targetImg + 1].image =
                       DrawTextItems(@, s.textItems, 1)]
         IN onStrokeFinished([s1 EXCEPT !.textItems = <<>>, !.activeTextIndex = -1])

setPenColor(s, c) == [s EXCEPT !.penColor = c, !.eraserMode = FALSE]

setEraserMode(s, on) == [s EXCEPT !.eraserMode = on]

setTool(s, t) == [s EXCEPT !.currentTool = t]

selectBrush(s) ==
    [setTool(setPenColor(setEraserMode(commitTextItems(s), FALSE), s.brushColor), "BRUSH")
        EXCEPT !.statusText = <<"Brush selected">>]

selectEraser(s) ==
    [setTool(setEraserMode(commitTextItems(s), TRUE), "ERASER")
        EXCEPT !.statusText = <<"Eraser selected">>]

\* The toolbar actions of the shape and selection tools.
ToolStatus(t) ==
    CASE t = "LINE" -> "Line tool"
      [] t = "RECTANGLE" -> "Rectangle tool"
      [] t = "CIRCLE" -> "Circle tool"
      [] t = "RECT_SELECT" -> "Rectangular selection tool"
      [] t = "LASSO_SELECT" -> "Free selection (lasso) tool"

selectShapeTool(s, t) == [setTool(s, t) EXCEPT !.statusText = <<ToolStatus(t)>>]

\* The toolbar action of the text tool.
selectText(s) == [setTool(commitTextItems(s), "TEXT") EXCEPT !.statusText = <<"Text tool">>]

\* QColor::name()
ColorName(c) == CASE c = Black -> "#000000" [] c = Red -> "#ff0000" [] OTHER -> "#other"

setColorFromButton(s, c) ==
    LET s1 == [s EXCEPT !.brushColor = c]
        s2 == IF ActiveInRange(s1) THEN setPenColor(s1, c) ELSE s1
    IN [s2 EXCEPT !.statusText = <<"Color: ", ColorName(c)>>]

\* ------------------------------------------------------------------ zoom
\* QString::number(zoomFactor, 'f', 1), zoom in tenths.
ZoomStr(z) == <<NumStr(z \div 10), ".", NumStr(z % 10)>>

\* Canvas::setZoom
setZoom(s, z) == IF z <= 0 THEN s ELSE [s EXCEPT !.zoom = z]

\* MainWindow::zoomFactor and Canvas::zoom hold the same value after every
\* handler; zoom stands for both.
zoomIn(s) ==
    LET z == IF s.zoom + 1 > 50 THEN 50 ELSE s.zoom + 1
    IN [setZoom(s, z) EXCEPT !.statusText = <<"Zoom: ">> \o ZoomStr(z) \o <<"x">>]

zoomOut(s) ==
    LET z == IF s.zoom - 1 < 2 THEN 2 ELSE s.zoom - 1
    IN [setZoom(s, z) EXCEPT !.statusText = <<"Zoom: ">> \o ZoomStr(z) \o <<"x">>]

\* ------------------------------------------------------------------ pointer events
\* Canvas::widgetToImage, zoom in tenths: ix = 10 * (p.x - offset.x) / zoom.
widgetToImage(s, p, w, h) ==
    LET dx == p[1] - s.imageOffset[1]
        dy == p[2] - s.imageOffset[2]
    IN IF dx < 0 \/ dy < 0 \/ 10 * dx >= w * s.zoom \/ 10 * dy >= h * s.zoom
       THEN NoPoint
       ELSE <<(20 * dx + s.zoom) \div (2 * s.zoom), (20 * dy + s.zoom) \div (2 * s.zoom)>>

\* The display position painted for the image point p (paintEvent):
\* imageOffset + p * zoom, the product truncated to int.
imageToWidget(s, p) ==
    <<s.imageOffset[1] + (p[1] * s.zoom) \div 10, s.imageOffset[2] + (p[2] * s.zoom) \div 10>>

\* zoom is a double reached by adding and subtracting 0.1; the quotient of
\* widgetToImage then lies a rounding error beside its exact value.  True
\* when the exact quotient for the display point p lies on the upper bound
\* or on a rounding boundary, so that the rounding error decides the result.
QuotientOnBoundary(s, p, w, h) ==
    LET dx == p[1] - s.imageOffset[1]
        dy == p[2] - s.imageOffset[2]
    IN \/ dx > 0 /\ (10 * dx = w * s.zoom \/ (20 * dx + s.zoom) % (2 * s.zoom) = 0)
       \/ dy > 0 /\ (10 * dy = h * s.zoom \/ (20 * dy + s.zoom) % (2 * s.zoom) = 0)

\* True when the exact product p * zoom of imageToWidget is an integer, so
\* that the rounding error decides the truncation.
ProductOnBoundary(s, p) ==
    \/ p[1] > 0 /\ (p[1] * s.zoom) % 10 = 0
    \/ p[2] > 0 /\ (p[2] * s.zoom) % 10 = 0

TargetW(s) == s.layers[s.targetImg + 1].image.w
TargetH(s) == s.layers[s.targetImg + 1].image.h

\* QRect::contains of boundingRect.translated(position).
TextHit(t, pt) ==
    /\ t.boundingRect.x1 + t.position[1] <= pt[1]
    /\ pt[1] <= t.boundingRect.x2 + t.position[1]
    /\ t.boundingRect.y1 + t.position[2] <= pt[2]
    /\ pt[2] <= t.boundingRect.y2 + t.position[2]

\* mousePressEvent with the hit loop running from the first text item up.
mousePressEventFirstHit(s, pos, ok, txt) ==
    IF s.currentTool = "TEXT" /\ s.targetImg # -1
    THEN LET imgPt == widgetToImage(s, pos, TargetW(s), TargetH(s)) IN
         IF imgPt = NoPoint THEN s
         ELSE LET hits == {i \in 1..Len(s.textItems) : TextHit(s.textItems[i], imgPt)} IN
              IF hits # {}
              THEN LET i == CHOOSE j \in hits : \A k \in hits : j <= k IN
                   [s EXCEPT !.activeTextIndex = i - 1,
                             !.textItems[i].selected = TRUE,
                             !.lastPoint = imgPt]
              ELSE IF ~ok \/ txt = "" THEN [s EXCEPT !.activeTextIndex = -1]
              ELSE [s EXCEPT !.textItems = Append(@,
                                 [text |-> txt, position |-> imgPt, color |-> s.penColor,
                                  boundingRect |-> TextBoundingRect(txt), selected |-> FALSE]),
                             !.activeTextIndex = Len(s.textItems)]
    ELSE IF s.targetImg # -1
    THEN LET imgPt == widgetToImage(s, pos, TargetW(s), TargetH(s)) IN
         IF imgPt = NoPoint THEN s
         ELSE LET s1 == [s EXCEPT !.startPoint = imgPt, !.lastPoint = imgPt]
                  s2 == CASE s.currentTool = "RECT_SELECT" ->
                                [s1 EXCEPT !.selecting = TRUE,
                                           !.selectionRect = MkRect(imgPt, imgPt)]
                          [] s.currentTool = "LASSO_SELECT" ->
                                [s1 EXCEPT !.selecting = TRUE, !.lassoPolygon = <<imgPt>>]
                          [] OTHER -> s1
              IN onStrokeStarted(s2)
    ELSE s

\* ok, txt: the result of QInputDialog::getText, asked only for a new text.
mousePressEvent(s, pos, ok, txt) ==
    IF s.currentTool = "TEXT" /\ s.targetImg # -1
    THEN LET imgPt == widgetToImage(s, pos, TargetW(s), TargetH(s)) IN
         IF imgPt = NoPoint THEN s
         ELSE LET hits == {i \in 1..Len(s.textItems) : TextHit(s.textItems[i], imgPt)} IN
              IF hits # {}
              THEN LET i == CHOOSE j \in hits : \A k \in hits : k <= j IN
                   [s EXCEPT !.activeTextIndex = i - 1,
                             !.textItems[i].selected = TRUE,
                             !.lastPoint = imgPt]
              ELSE IF ~ok \/ txt = "" THEN [s EXCEPT !.activeTextIndex = -1]
              ELSE [s EXCEPT !.textItems = Append(@,
                                 [text |-> txt, position |-> imgPt, color |-> s.penColor,
                                  boundingRect |-> TextBoundingRect(txt), selected |-> FALSE]),
                             !.activeTextIndex = Len(s.textItems)]
    ELSE IF s.targetImg # -1
    THEN LET imgPt == widgetToImage(s, pos, TargetW(s), TargetH(s)) IN
         IF imgPt = NoPoint THEN s
         ELSE LET s1 == [s EXCEPT !.startPoint = imgPt, !.lastPoint = imgPt]
                  s2 == CASE s.currentTool = "RECT_SELECT" ->
                                [s1 EXCEPT !.selecting = TRUE,
                                           !.selectionRect = MkRect(imgPt, imgPt)]
                          [] s.currentTool = "LASSO_SELECT" ->
                                [s1 EXCEPT !.selecting = TRUE, !.lassoPolygon = <<imgPt>>]
                          [] OTHER -> s1
              IN onStrokeStarted(s2)
    ELSE s

\* left: event->buttons() & Qt::LeftButton
mouseMoveEvent(s, pos, left) ==
    IF s.currentTool = "TEXT" /\ s.activeTextIndex >= 0 /\ left
    THEN LET imgPt == widgetToImage(s, pos, TargetW(s), TargetH(s)) IN
         IF imgPt = NoPoint THEN s
         ELSE [s EXCEPT !.textItems[s.activeTextIndex + 1].position =
                            <<@[1] + imgPt[1] - s.lastPoint[1], @[2] + imgPt[2] - s.lastPoint[2]>>,
                        !.lastPoint = imgPt]
    ELSE IF ~left \/ s.targetImg = -1 THEN s
    ELSE LET imgPt == widgetToImage(s, pos, TargetW(s), TargetH(s)) IN
         IF imgPt = NoPoint THEN s
         ELSE LET s1 == IF s.currentTool = "RECT_SELECT" /\ s.selecting
                        THEN [s EXCEPT !.selectionRect.x2 = imgPt[1],
                                       !.selectionRect.y2 = imgPt[2]]
                        ELSE IF s.currentTool = "LASSO_SELECT" /\ s.selecting
                        THEN [s EXCEPT !.lassoPolygon = Append(@, imgPt)]
                        ELSE s
              IN IF s1.currentTool \in {"BRUSH", "ERASER"}
                 THEN LET T == s1.layers[s1.targetImg + 1].image
                          ps == SegmentPixels(s1.lastPoint, imgPt)
                          drawn == IF s1.eraserMode THEN ClearPixels(T, ps)
                                   ELSE PaintPixels(T, ps, s1.penColor)
                      IN onStrokeFinished([s1 EXCEPT !.layers[s1.targetImg + 1].image = drawn,
                                                     !.lastPoint = imgPt])
                 ELSE s1

mouseReleaseEvent(s, pos) ==
    IF s.selecting
    THEN LET imgPt == widgetToImage(s, pos, TargetW(s), TargetH(s))
             s1 == IF imgPt # NoPoint
                   THEN CASE s.currentTool = "RECT_SELECT" ->
                                 [s EXCEPT !.selectionRect.x2 = imgPt[1],
                                           !.selectionRect.y2 = imgPt[2]]
                          [] s.currentTool = "LASSO_SELECT" ->
                                 [s EXCEPT !.lassoPolygon = Append(@, imgPt)]
                          [] OTHER -> s
                   ELSE s
             has == \/ s1.currentTool = "RECT_SELECT" /\ ~RectIsNull(s1.selectionRect)
                    \/ s1.currentTool = "LASSO_SELECT" /\ s1.lassoPolygon # <<>>
         IN onStrokeFinished([s1 EXCEPT !.selecting = FALSE, !.hasSelection = has])
    ELSE s


\* ------------------------------------------------------------------ inputs
\* Pointer positions, in widget coordinates: inside and outside every image
\* size the model reaches.
WidgetPoints == {<<0, 0>>, <<1, 0>>, <<1, 1>>, <<2, 0>>}

\* Two of the five palette buttons.
PaletteColors == {Black, Red}

ShapeTools == {"LINE", "RECTANGLE", "CIRCLE", "RECT_SELECT", "LASSO_SELECT"}

\* What the text prompt can return.
TextInputs == {"", "A"}

\* The names the rename prompt can return (<<>>: an empty line).
NameInputs == {<<>>, <<"Renamed">>}

\* The opacities the opacity prompt can return, in hundredths.
OpacityInputs == {0, 50, 100}

\* The image a file decodes to: one column of two pixels, one of them
\* partly transparent.
LoadedImage ==
    [w |-> 1, h |-> 2,
     px |-> [p \in Coords(1, 2) |-> IF p = <<0, 0>> THEN HalfRed ELSE White]]

\* What QImage::load yields: the null image when decoding fails.
LoadResults == {NullImage, LoadedImage}

FileNames == {<<>>, <<"a.png">>}

MenuActions == {"none", "Duplicate Layer", "Delete Layer", "Rename Layer", "Change Opacity"}

\* ------------------------------------------------------------------ initial state
\* The state after MainWindow's constructor.
InitProgram ==
    /\ layers = <<NewLayer(<<"Background">>, Filled(BaseSize.w, BaseSize.h, White)),
                  NewLayer(<<"Layer ", "1">>, Filled(BaseSize.w, BaseSize.h, Transparent))>>
    /\ activeLayerIndex = 1
    /\ selectionBuffer = NullImage
    /\ statusText = <<"Ready - active layer: ", "Layer ", "1">>
    /\ listRows = << <<"Layer ", "1">>, <<"Background">> >>
    /\ currentRow = 0
    /\ brushColor = Black
    /\ composite = Composed(layers)
    /\ targetImg = 1
    /\ lastPoint = NoPoint
    /\ startPoint = NoPoint
    /\ penColor = Black
    /\ eraserMode = FALSE
    /\ currentTool = "BRUSH"
    /\ selecting = FALSE
    /\ hasSelection = FALSE
    /\ selectionRect = NullRect
    /\ lassoPolygon = <<>>
    /\ textItems = <<>>
    /\ activeTextIndex = -1
    /\ zoom = 10
    /\ imageOffset = <<0, 0>>
    /\ buttonDown = FALSE
    /\ steps = 0
    /\ lastOp = "init"
    /\ strokeOpen = FALSE
    /\ lastKind = "reset"
    /\ preUndo = <<>>
    /\ roundTrip = <<>>
    /\ runPre = <<>>
    /\ undoing = FALSE
    /\ pressedAt = NoPoint
    /\ copiedAt = NoPoint

Init == InitProgram

\* ------------------------------------------------------------------ actions
\* The last MAX_UNDO elements of q.
LastN(q) == IF Len(q) > MAX_UNDO THEN SubSeq(q, Len(q) - MAX_UNDO + 1, Len(q)) ELSE q

\* One handler ran and left the program in state s.  kind tells what the
\* handler was for the run of mutations under way on the active layer:
\* "mutation" (a committed mutation starts), "undo", "keep" (it goes on) or
\* "reset" (it ends).
Ran(op, kind, s) ==
    /\ steps < MaxSteps
    /\ steps' = steps + 1
    /\ lastOp' = op
    /\ lastKind' = kind
    /\ Becomes(s)
    /\ preUndo' = IF kind = "undo" THEN <<ActiveLayer(St)>> ELSE <<>>
    /\ roundTrip' = IF op = "redo" /\ lastOp = "undo" /\ preUndo # <<>>
                       /\ preUndo[1].undoStack # <<>>
                    THEN preUndo ELSE <<>>
    /\ runPre' = CASE kind = "mutation" ->
                        LastN(Append(IF undoing THEN <<>> ELSE runPre, ActiveLayer(St).image))
                   [] kind = "undo" -> IF runPre = <<>> THEN <<>> ELSE Front(runPre)
                   [] kind = "keep" -> runPre
                   [] OTHER -> <<>>
    /\ undoing' = CASE kind = "undo" -> TRUE
                    [] kind = "keep" -> undoing
                    [] OTHER -> FALSE
    /\ UNCHANGED <<pressedAt, copiedAt>>

\* One handler ran under SpecHist, which bounds the snapshots a layer holds
\* instead of the number of handlers, and does not follow the runs of mutations.
RanHist(op, kind, s) ==
    /\ \A i \in 1..Len(s.layers) :
          Len(s.layers[i].undoStack) + Len(s.layers[i].redoStack) <= MaxHistory
    /\ lastOp' = op
    /\ Becomes(s)
    /\ UNCHANGED <<steps, lastKind, preUndo, roundTrip, runPre, undoing, pressedAt, copiedAt>>

\* The handler ran under SpecHist (hist) or under Spec.
Handled(hist, op, kind, s) == IF hist THEN RanHist(op, kind, s) ELSE Ran(op, kind, s)

Freehand(s) == s.currentTool \in {"BRUSH", "ERASER"}

\* The press opens the text prompt: the text tool, a point of the image, no
\* text item under it.
Prompted(s, pos) ==
    /\ s.currentTool = "TEXT" /\ s.targetImg # -1
    /\ LET imgPt == widgetToImage(s, pos, TargetW(s), TargetH(s))
       IN /\ imgPt # NoPoint
          /\ \A i \in 1..Len(s.textItems) : ~TextHit(s.textItems[i], imgPt)

MousePressAs(hist) ==
    \E pos \in WidgetPoints,
       ok \in IF currentTool = "TEXT" THEN BOOLEAN ELSE {FALSE},
       txt \in IF currentTool = "TEXT" THEN TextInputs ELSE {""} :
        LET started == /\ currentTool # "TEXT" /\ targetImg # -1
                       /\ widgetToImage(St, pos, TargetW(St), TargetH(St)) # NoPoint
        IN /\ ~buttonDown
           /\ buttonDown' = TRUE
           /\ strokeOpen' = started
           /\ Handled(hist, IF Prompted(St, pos) /\ ~ok THEN "press cancelled" ELSE "press",
                  IF started /\ Freehand(St) THEN "mutation"
                  ELSE IF started THEN "reset" ELSE "keep",
                  mousePressEvent(St, pos, ok, txt))

MousePress == MousePressAs(FALSE)

MouseMove ==
    \E pos \in WidgetPoints :
        /\ buttonDown
        /\ UNCHANGED <<buttonDown, strokeOpen>>
        /\ Ran("move", "keep", mouseMoveEvent(St, pos, TRUE))

MouseReleaseAs(hist) ==
    \E pos \in WidgetPoints :
        /\ buttonDown
        /\ buttonDown' = FALSE
        /\ strokeOpen' = FALSE
        /\ Handled(hist, "release", "keep", mouseReleaseEvent(St, pos))

MouseRelease == MouseReleaseAs(FALSE)

UndoAs(hist) ==
    /\ UNCHANGED <<buttonDown, strokeOpen>>
    /\ Handled(hist, "undo", "undo", undo(St))

Undo == UndoAs(FALSE)

RedoAs(hist) ==
    /\ UNCHANGED <<buttonDown, strokeOpen>>
    /\ Handled(hist, "redo", "reset", redo(St))

Redo == RedoAs(FALSE)

ClearCanvas ==
    /\ UNCHANGED <<buttonDown, strokeOpen>>
    /\ Ran("clear", "mutation", clearCanvas(St))

RotateLeft ==
    /\ UNCHANGED <<buttonDown, strokeOpen>>
    /\ Ran("rotateLeft", "mutation", rotateLeft(St))

RotateRight ==
    /\ UNCHANGED <<buttonDown, strokeOpen>>
    /\ Ran("rotateRight", "mutation", rotateRight(St))

FlipHorizontal ==
    /\ UNCHANGED <<buttonDown, strokeOpen>>
    /\ Ran("flipHorizontal", "mutation", flipHorizontal(St))

FlipVertical ==
    /\ UNCHANGED <<buttonDown, strokeOpen>>
    /\ Ran("flipVertical", "mutation", flipVertical(St))

Grayscale ==
    \E accepted \in BOOLEAN :
        /\ UNCHANGED <<buttonDown, strokeOpen>>
        /\ Ran(IF accepted THEN "grayscale accepted" ELSE "grayscale rejected",
               IF accepted THEN "mutation" ELSE "keep", grayscale(St, accepted))

InvertColors ==
    \E accepted \in BOOLEAN :
        /\ UNCHANGED <<buttonDown, strokeOpen>>
        /\ Ran(IF accepted THEN "invert accepted" ELSE "invert rejected",
               IF accepted THEN "mutation" ELSE "keep", invertColors(St, accepted))

CopySelectionAs(hist) ==
    /\ UNCHANGED <<buttonDown, strokeOpen>>
    /\ Handled(hist, "copy", "keep", copySelection(St))

CopySelection == CopySelectionAs(FALSE)

CutSelection ==
    /\ UNCHANGED <<buttonDown, strokeOpen>>
    /\ Ran("cut", IF hasSelection THEN "mutation" ELSE "keep", cutSelection(St))

PasteSelectionAs(hist) ==
    /\ UNCHANGED <<buttonDown, strokeOpen>>
    /\ Handled(hist, "paste", IF isNullImage(selectionBuffer) THEN "keep" ELSE "mutation",
           pasteSelection(St))

PasteSelection == PasteSelectionAs(FALSE)

\* A tool action that commits the pending text items is a text commit.
CommitKind == IF targetImg # -1 /\ textItems # <<>> THEN "mutation" ELSE "keep"

SelectBrush ==
    /\ UNCHANGED <<buttonDown, strokeOpen>>
    /\ Ran("selectBrush", CommitKind, selectBrush(St))

SelectEraser ==
    /\ UNCHANGED <<buttonDown, strokeOpen>>
    /\ Ran("selectEraser", CommitKind, selectEraser(St))

SelectText ==
    /\ UNCHANGED <<buttonDown, strokeOpen>>
    /\ Ran("selectText", CommitKind, selectText(St))

SelectShapeTool ==
    \E t \in ShapeTools :
        /\ UNCHANGED <<buttonDown, strokeOpen>>
        /\ Ran("selectShapeTool", "keep", selectShapeTool(St, t))

SetColorFromButton ==
    \E c \in PaletteColors :
        /\ UNCHANGED <<buttonDown, strokeOpen>>
        /\ Ran("setColorFromButton", "keep", setColorFromButton(St, c))

AddLayer ==
    /\ Len(layers) < MaxLayers
    /\ UNCHANGED <<buttonDown, strokeOpen>>
    /\ Ran("addLayer", "reset", addLayer(St))

RemoveLayer ==
    \E emitOld \in BOOLEAN :
        /\ UNCHANGED <<buttonDown, strokeOpen>>
        /\ Ran("removeLayer", "reset", removeLayer(St, emitOld))

\* currentRowChanged(uiRow): the user makes another row current, or the slot
\* is handed a row the list does not have.
ActivateLayer ==
    \E uiRow \in (-1)..Len(listRows) :
        /\ uiRow # currentRow
        /\ UNCHANGED <<buttonDown, strokeOpen>>
        /\ Ran("activateLayer", "reset",
               activateLayer([St EXCEPT !.currentRow =
                                 IF uiRow < Len(listRows) THEN uiRow ELSE @], uiRow))

\* The name under which a context-menu choice is recorded in lastOp; ok is
\* FALSE when the prompt of the choice was cancelled.
MenuOp(selected, ok) ==
    CASE selected = "none" -> "contextMenu dismissed"
      [] selected = "Duplicate Layer" -> "contextMenu duplicateLayer"
      [] selected = "Delete Layer" -> "contextMenu deleteLayer"
      [] selected = "Rename Layer" ->
            IF ok THEN "contextMenu renameLayer" ELSE "contextMenu renameLayer cancelled"
      [] selected = "Change Opacity" ->
            IF ok THEN "contextMenu changeLayerOpacity"
            ELSE "contextMenu changeLayerOpacity cancelled"

\* The menu is requested on the current row: the click that requests it on
\* another row first makes that row current (ActivateLayer).
LayerContextMenu ==
    \E uiIndex \in {currentRow} \cap 0..(Len(listRows) - 1), selected \in MenuActions :
      \E emitOld \in IF selected = "Delete Layer" THEN BOOLEAN ELSE {FALSE},
         ok \in IF selected \in {"Rename Layer", "Change Opacity"} THEN BOOLEAN ELSE {FALSE},
         name \in IF selected = "Rename Layer" THEN NameInputs ELSE {<<>>},
         op \in IF selected = "Change Opacity" THEN OpacityInputs ELSE {100} :
        /\ selected = "Duplicate Layer" => Len(layers) < MaxLayers
        /\ UNCHANGED <<buttonDown, strokeOpen>>
        /\ Ran(MenuOp(selected, ok), "reset",
               onLayerContextMenu(St, uiIndex, selected,
                                  [emitOld |-> emitOld, ok |-> ok, name |-> name, op |-> op]))

OpenFile ==
    \E fileName \in FileNames, loaded \in LoadResults :
        /\ UNCHANGED <<buttonDown, strokeOpen>>
        /\ Ran(CASE fileName = <<>> -> "openFile cancelled"
                  [] isNullImage(loaded) -> "openFile failed"
                  [] OTHER -> "openFile",
               "reset", openFile(St, fileName, loaded))

Next ==
    \/ MousePress
    \/ MouseMove
    \/ MouseRelease
    \/ Undo
    \/ Redo
    \/ ClearCanvas
    \/ RotateLeft
    \/ RotateRight
    \/ FlipHorizontal
    \/ FlipVertical
    \/ Grayscale
    \/ InvertColors
    \/ CopySelection
    \/ CutSelection
    \/ PasteSelection
    \/ SelectBrush
    \/ SelectEraser
    \/ SelectText
    \/ SelectShapeTool
    \/ SetColorFromButton
    \/ AddLayer
    \/ RemoveLayer
    \/ ActivateLayer
    \/ LayerContextMenu
    \/ OpenFile

Spec == Init /\ [][Next]_vars

\* The toolbar action of the rectangular selection tool.
SelectRectSelect ==
    /\ UNCHANGED <<buttonDown, strokeOpen>>
    /\ RanHist("selectShapeTool", "keep", selectShapeTool(St, "RECT_SELECT"))

HistMousePress == MousePressAs(TRUE)

HistMouseRelease == MouseReleaseAs(TRUE)

HistCopySelection == CopySelectionAs(TRUE)

HistPasteSelection == PasteSelectionAs(TRUE)

HistUndo == UndoAs(TRUE)

HistRedo == RedoAs(TRUE)

\* The handlers that push, pop and restore snapshots without drawing, run
\* until a layer holds MaxHistory snapshots.
NextHist ==
    \/ SelectRectSelect
    \/ HistMousePress
    \/ HistMouseRelease
    \/ HistCopySelection
    \/ HistPasteSelection
    \/ HistUndo
    \/ HistRedo

SpecHist == Init /\ [][NextHist]_vars

\* ------------------------------------------------------------------ SpecMap
\* The display points pressed under SpecMap.
MapPoints == {<<x, y>> : x \in 0..4, y \in 0..1}

\* An image file three pixels wide.
WideImage == Filled(3, 1, White)

\* One handler ran under SpecMap, which follows the zoom levels and the
\* display points pressed; pos is the point of a press, NoPoint otherwise.
RanMap(op, s, pos) ==
    /\ lastOp' = op
    /\ Becomes(s)
    /\ pressedAt' = pos
    /\ UNCHANGED <<steps, lastKind, preUndo, roundTrip, runPre, undoing, copiedAt>>

ZoomIn ==
    /\ UNCHANGED <<buttonDown, strokeOpen>>
    /\ RanMap("zoomIn", zoomIn(St), NoPoint)

ZoomOut ==
    /\ UNCHANGED <<buttonDown, strokeOpen>>
    /\ RanMap("zoomOut", zoomOut(St), NoPoint)

\* A file is opened into a layer that has no history yet.
MapOpenFile ==
    /\ ~buttonDown
    /\ ActiveLayer(St).undoStack = <<>>
    /\ UNCHANGED <<buttonDown, strokeOpen>>
    /\ RanMap("openFile", openFile(St, <<"wide.png">>, WideImage), NoPoint)

\* A press at a display point whose image point does not hang on the
\* rounding error of the zoom.
MapPress ==
    \E pos \in MapPoints :
        /\ ~buttonDown
        /\ ActiveLayer(St).undoStack = <<>>
        /\ ~QuotientOnBoundary(St, pos, TargetW(St), TargetH(St))
        /\ buttonDown' = TRUE
        /\ strokeOpen' = (widgetToImage(St, pos, TargetW(St), TargetH(St)) # NoPoint)
        /\ RanMap("press", mousePressEvent(St, pos, FALSE, ""), pos)

\* The release that ends the gesture; undo() then drops its snapshot.
MapRelease ==
    \E pos \in MapPoints :
        /\ buttonDown
        /\ buttonDown' = FALSE
        /\ strokeOpen' = FALSE
        /\ RanMap("release", mouseReleaseEvent(St, pos), NoPoint)

MapUndo ==
    /\ ~buttonDown
    /\ ActiveLayer(St).undoStack # <<>>
    /\ UNCHANGED <<buttonDown, strokeOpen>>
    /\ RanMap("undo", undo(St), NoPoint)

NextMap ==
    \/ ZoomIn
    \/ ZoomOut
    \/ MapOpenFile
    \/ MapPress
    \/ MapRelease
    \/ MapUndo

SpecMap == Init /\ [][NextMap]_vars

\* ------------------------------------------------------------------ SpecClip
\* The snapshots a layer may hold under SpecClip.
MaxClipHistory == 3

\* The points a lasso may have under SpecClip.
MaxLasso == 4

\* The display points of the gestures under SpecClip.
ClipPoints == {<<x, y>> : x \in 0..1, y \in 0..1}

\* One handler ran under SpecClip, which follows selection gestures and the
\* clipboard on a layer with a partly transparent pixel.
RanClip(op, s) ==
    /\ \A i \in 1..Len(s.layers) :
          Len(s.layers[i].undoStack) + Len(s.layers[i].redoStack) <= MaxClipHistory
    /\ Len(s.lassoPolygon) <= MaxLasso
    /\ lastOp' = op
    /\ Becomes(s)
    /\ copiedAt' = IF op \in {"copy", "cut"} /\ hasSelection
                   THEN RectTopLeft(selectionRect) ELSE copiedAt
    /\ UNCHANGED <<steps, lastKind, preUndo, roundTrip, runPre, undoing, pressedAt>>

\* The file is opened first thing.
ClipOpenFile ==
    /\ lastOp = "init"
    /\ UNCHANGED <<buttonDown, strokeOpen>>
    /\ RanClip("openFile", openFile(St, <<"a.png">>, LoadedImage))

ClipSelectTool ==
    \E t \in {"RECT_SELECT", "LASSO_SELECT"} :
        /\ ~buttonDown
        /\ t # currentTool
        /\ UNCHANGED <<buttonDown, strokeOpen>>
        /\ RanClip("selectShapeTool", selectShapeTool(St, t))

ClipPress ==
    \E pos \in ClipPoints :
        /\ ~buttonDown
        /\ currentTool \in {"RECT_SELECT", "LASSO_SELECT"}
        /\ buttonDown' = TRUE
        /\ strokeOpen' = (widgetToImage(St, pos, TargetW(St), TargetH(St)) # NoPoint)
        /\ RanClip("press", mousePressEvent(St, pos, FALSE, ""))

\* The pointer moves on, for a lasso to a point it has not visited.
ClipMove ==
    \E pos \in ClipPoints :
        /\ buttonDown
        /\ currentTool = "LASSO_SELECT"
              => \A i \in 1..Len(lassoPolygon) : lassoPolygon[i] # pos
        /\ UNCHANGED <<buttonDown, strokeOpen>>
        /\ RanClip("move", mouseMoveEvent(St, pos, TRUE))

ClipRelease ==
    \E pos \in ClipPoints :
        /\ buttonDown
        /\ currentTool = "LASSO_SELECT"
              => \A i \in 1..Len(lassoPolygon) : lassoPolygon[i] # pos
        /\ buttonDown' = FALSE
        /\ strokeOpen' = FALSE
        /\ RanClip("release", mouseReleaseEvent(St, pos))

ClipCopy ==
    /\ ~buttonDown
    /\ UNCHANGED <<buttonDown, strokeOpen>>
    /\ RanClip("copy", copySelection(St))

ClipCut ==
    /\ ~buttonDown
    /\ UNCHANGED <<buttonDown, strokeOpen>>
    /\ RanClip("cut", cutSelection(St))

ClipPaste ==
    /\ ~buttonDown
    /\ UNCHANGED <<buttonDown, strokeOpen>>
    /\ RanClip("paste", pasteSelection(St))

NextClip ==
    \/ ClipOpenFile
    \/ ClipSelectTool
    \/ ClipPress
    \/ ClipMove
    \/ ClipRelease
    \/ ClipCopy
    \/ ClipCut
    \/ ClipPaste

SpecClip == Init /\ [][NextClip]_vars

\* ------------------------------------------------------------------ SpecDraw
\* The number of handlers a behaviour of SpecDraw runs.
MaxDrawSteps == 6

\* An image file of 2 x 2 transparent pixels.
BlankImage == Filled(2, 2, Transparent)

\* One handler ran under SpecDraw, which follows pointer gestures with the
\* drawing tools; pos is the display point of a pointer event, NoPoint
\* otherwise.
RanDraw(op, s, pos) ==
    /\ steps < MaxDrawSteps
    /\ steps' = steps + 1
    /\ lastOp' = op
    /\ Becomes(s)
    /\ pressedAt' = pos
    /\ UNCHANGED <<lastKind, preUndo, roundTrip, runPre, undoing, copiedAt>>

\* The file is opened first thing.
DrawOpenFile ==
    /\ lastOp = "init"
    /\ UNCHANGED <<buttonDown, strokeOpen>>
    /\ RanDraw("openFile", openFile(St, <<"blank.png">>, BlankImage), NoPoint)

DrawSelectBrush ==
    /\ ~buttonDown
    /\ UNCHANGED <<buttonDown, strokeOpen>>
    /\ RanDraw("selectBrush", selectBrush(St), NoPoint)

DrawSelectEraser ==
    /\ ~buttonDown
    /\ UNCHANGED <<buttonDown, strokeOpen>>
    /\ RanDraw("selectEraser", selectEraser(St), NoPoint)

DrawSelectShape ==
    \E t \in {"LINE", "RECTANGLE", "CIRCLE", "RECT_SELECT"} :
        /\ ~buttonDown
        /\ t # currentTool
        /\ UNCHANGED <<buttonDown, strokeOpen>>
        /\ RanDraw("selectShapeTool", selectShapeTool(St, t), NoPoint)

DrawSetColor ==
    /\ ~buttonDown
    /\ UNCHANGED <<buttonDown, strokeOpen>>
    /\ RanDraw("setColorFromButton", setColorFromButton(St, Red), NoPoint)

DrawPress ==
    \E pos \in WidgetPoints :
        /\ ~buttonDown
        /\ buttonDown' = TRUE
        /\ strokeOpen' = (widgetToImage(St, pos, TargetW(St), TargetH(St)) # NoPoint)
        /\ RanDraw("press", mousePressEvent(St, pos, FALSE, ""), pos)

DrawMove ==
    \E pos \in WidgetPoints :
        /\ buttonDown
        /\ UNCHANGED <<buttonDown, strokeOpen>>
        /\ RanDraw("move", mouseMoveEvent(St, pos, TRUE), pos)

DrawRelease ==
    \E pos \in WidgetPoints :
        /\ buttonDown
        /\ buttonDown' = FALSE
        /\ strokeOpen' = FALSE
        /\ RanDraw("release", mouseReleaseEvent(St, pos), pos)

DrawUndo ==
    /\ ~buttonDown
    /\ UNCHANGED <<buttonDown, strokeOpen>>
    /\ RanDraw("undo", undo(St), NoPoint)

NextDraw ==
    \/ DrawOpenFile
    \/ DrawSelectBrush
    \/ DrawSelectEraser
    \/ DrawSelectShape
    \/ DrawSetColor
    \/ DrawPress
    \/ DrawMove
    \/ DrawRelease
    \/ DrawUndo

SpecDraw == Init /\ [][NextDraw]_vars

\* ------------------------------------------------------------------ SpecPanel
\* The number of handlers a behaviour of SpecPanel runs.
MaxPanelSteps == 7

\* One handler ran under SpecPanel, which follows the layer panel through
\* the structural operations on the layer stack.
RanPanel(op, s) ==
    /\ steps < MaxPanelSteps
    /\ steps' = steps + 1
    /\ lastOp' = op
    /\ Becomes(s)
    /\ UNCHANGED <<buttonDown, strokeOpen, lastKind, preUndo, roundTrip, runPre, undoing,
                   pressedAt, copiedAt>>

PanelAddLayer ==
    /\ Len(layers) < MaxLayers
    /\ RanPanel("addLayer", addLayer(St))

PanelRemoveLayer ==
    \E emitOld \in BOOLEAN :
        /\ layers # <<>>
        /\ RanPanel("removeLayer", removeLayer(St, emitOld))

\* The user makes another row of the list current.
PanelActivateLayer ==
    \E uiRow \in 0..(Len(listRows) - 1) :
        /\ uiRow # currentRow
        /\ RanPanel("activateLayer", activateLayer([St EXCEPT !.currentRow = uiRow], uiRow))

\* The context menu of the current row, with what its prompts answer.
PanelContextMenu ==
    \E selected \in MenuActions \ {"none"}, emitOld \in BOOLEAN, ok \in BOOLEAN :
        /\ currentRow \in 0..(Len(listRows) - 1)
        /\ selected = "Duplicate Layer" => Len(layers) < MaxLayers
        /\ selected # "Delete Layer" => ~emitOld
        /\ selected \notin {"Rename Layer", "Change Opacity"} => ~ok
        /\ RanPanel(MenuOp(selected, ok),
                    onLayerContextMenu(St, currentRow, selected,
                        [emitOld |-> emitOld, ok |-> ok, name |-> <<"Renamed">>, op |-> 50]))

NextPanel ==
    \/ PanelAddLayer
    \/ PanelRemoveLayer
    \/ PanelActivateLayer
    \/ PanelContextMenu

SpecPanel == Init /\ [][NextPanel]_vars

\* ------------------------------------------------------------------ SpecText
\* The number of handlers a behaviour of SpecText runs.
MaxTextSteps == 7

\* The texts typed into the prompt of the text tool under SpecText.
TextTexts == {"A", "AB"}

\* One handler ran under SpecText, which follows pointer gestures with the
\* text tool; pos is the display point of a pointer event, NoPoint otherwise.
RanText(op, s, pos) ==
    /\ steps < MaxTextSteps
    /\ steps' = steps + 1
    /\ lastOp' = op
    /\ Becomes(s)
    /\ pressedAt' = pos
    /\ UNCHANGED <<strokeOpen, lastKind, preUndo, roundTrip, runPre, undoing, copiedAt>>

\* The text tool is chosen first thing.
TextSelectText ==
    /\ lastOp = "init"
    /\ UNCHANGED buttonDown
    /\ RanText("selectText", selectText(St), NoPoint)

\* A cancelled prompt is one outcome, whatever was typed.
TextPress ==
    \E pos \in WidgetPoints, ok \in BOOLEAN, txt \in TextTexts :
        /\ ~buttonDown
        /\ currentTool = "TEXT"
        /\ ok \/ (Prompted(St, pos) /\ txt = "A")
        /\ Prompted(St, pos) \/ txt = "A"
        /\ buttonDown' = TRUE
        /\ RanText(IF Prompted(St, pos) /\ ~ok THEN "press cancelled" ELSE "press",
                   mousePressEvent(St, pos, ok, txt), pos)

TextMove ==
    \E pos \in WidgetPoints :
        /\ buttonDown
        /\ UNCHANGED buttonDown
        /\ RanText("move", mouseMoveEvent(St, pos, TRUE), pos)

TextRelease ==
    \E pos \in WidgetPoints :
        /\ buttonDown
        /\ buttonDown' = FALSE
        /\ RanText("release", mouseReleaseEvent(St, pos), pos)

NextText ==
    \/ TextSelectText
    \/ TextPress
    \/ TextMove
    \/ TextRelease

SpecText == Init /\ [][NextText]_vars

\* ------------------------------------------------------------------ properties
\* The active layer, before and after a step.
Active == layers[activeLayerIndex + 1]

\* C1: after a run of N committed mutations on the active layer, N calls of
\* undo() leave the buffer as it was before the first of them; runPre holds
\* the buffers before the mutations of the run not yet undone, so every undo
\* of the run must bring back the last of them.
C1_UndoRestoresRun ==
    [][(lastOp' = "undo" /\ runPre # <<>>)
          => layers'[activeLayerIndex' + 1].image = Last(runPre)]_vars

\* C2: undo() followed at once by redo() leaves the active layer's buffer,
\* undo stack and redo stack as they were before the undo(), when the undo()
\* had a snapshot to restore.
C2_UndoThenRedoRestores ==
    roundTrip # <<>> => Active = roundTrip[1]

\* An undo() and redo() pair has run on a layer whose buffer differs from
\* the snapshot under it.
C2_Witness ==
    /\ roundTrip # <<>>
    /\ lastOp = "redo"
    /\ Active.undoStack # <<>>
    /\ Active.image # Last(Active.undoStack)

\* C3: after any committed mutation the active layer's redo stack is empty.
C3_RedoEmptyAfterMutation ==
    [][lastKind' = "mutation" => layers'[activeLayerIndex' + 1].redoStack = <<>>]_vars

\* The handlers that change a layer's pixels.
PixelOps ==
    {"move", "release", "clear", "cut", "paste", "grayscale accepted", "invert accepted",
     "rotateLeft", "rotateRight", "flipHorizontal", "flipVertical",
     "selectBrush", "selectEraser", "selectText"}

\* C4: a handler that changes a layer's pixels has pushed the buffer it found
\* on that layer's undo stack, or, for a segment of a stroke, the stroke's
\* start has.
C4_SnapshotBeforePixels ==
    [][\A i \in 1..Len(layers) :
          (/\ lastOp' \in PixelOps
           /\ Len(layers') = Len(layers)
           /\ layers'[i].image # layers[i].image)
          => \/ layers'[i].undoStack = TrimUndo(Append(layers[i].undoStack, layers[i].image))
             \/ lastOp' = "move" /\ strokeOpen /\ layers'[i].undoStack = layers[i].undoStack]_vars

\* C5: no layer's undo stack ever holds more than MAX_UNDO snapshots.
C5_UndoStackBounded ==
    \A i \in 1..Len(layers) : Len(layers[i].undoStack) <= MAX_UNDO

\* C6: undo() on an empty undo stack and redo() on an empty redo stack change
\* no layer, and set the status text to "Nothing to undo" and "Nothing to
\* redo".
C6_EmptyStackNoOp ==
    [][/\ (lastOp' = "undo" /\ Active.undoStack = <<>>)
          => /\ layers' = layers
             /\ activeLayerIndex' = activeLayerIndex
             /\ statusText' = <<"Nothing to undo">>
       /\ (lastOp' = "redo" /\ Active.redoStack = <<>>)
          => /\ layers' = layers
             /\ activeLayerIndex' = activeLayerIndex
             /\ statusText' = <<"Nothing to redo">>]_vars

\* undo() has found the undo stack empty on a layer that has snapshots to redo.
C6_Witness ==
    /\ lastOp = "undo"
    /\ statusText = <<"Nothing to undo">>
    /\ Active.undoStack = <<>>
    /\ Active.redoStack # <<>>

\* C7: undo() and redo() change no layer but the active one, keep the active
\* index, and take the restored buffer from the active layer's own stacks.
C7_OnlyActiveLayer ==
    [][lastOp' \in {"undo", "redo"}
          => /\ Len(layers') = Len(layers)
             /\ activeLayerIndex' = activeLayerIndex
             /\ \A i \in 1..Len(layers) : i # activeLayerIndex + 1 => layers'[i] = layers[i]
             /\ (lastOp' = "undo" /\ Active.undoStack # <<>>)
                   => layers'[activeLayerIndex + 1].image = Last(Active.undoStack)
             /\ (lastOp' = "redo" /\ Active.redoStack # <<>>)
                   => layers'[activeLayerIndex + 1].image = Last(Active.redoStack)]_vars

\* undo() has run on a layer while another layer held snapshots.
C7_Witness ==
    /\ lastOp = "undo"
    /\ \E i \in 1..Len(layers) : i # activeLayerIndex + 1 /\ layers[i].undoStack # <<>>

\* C8: there is always at least one layer, and removeLayer() and the context
\* menu's deleteLayer() with a single layer leave the layers as they are.
C8_LastLayerStays ==
    /\ [](Len(layers) >= 1)
    /\ [][(Len(layers) = 1 /\ lastOp' \in {"removeLayer", "contextMenu deleteLayer"})
             => layers' = layers /\ activeLayerIndex' = activeLayerIndex]_vars

\* removeLayer() has been refused: one layer, and the status text is not the
\* one a removal leaves.
C8_Witness ==
    /\ lastOp = "removeLayer"
    /\ Len(layers) = 1
    /\ statusText = <<"Nothing to undo">>

\* C9: activeLayerIndex is the index of a layer.
C9_ActiveIndexInRange ==
    0 <= activeLayerIndex /\ activeLayerIndex < Len(layers)

\* The topmost layer was active and has been removed.
C9_Witness ==
    /\ lastOp \in {"removeLayer", "contextMenu deleteLayer"}
    /\ Len(layers) = 1
    /\ activeLayerIndex = 0
    /\ statusText # <<>>
    /\ Head(statusText) = "Layer removed, active: "

\* C10: a rejected grayscale or invert preview leaves the active layer's
\* buffer, undo stack and redo stack as they were.
C10_RejectedPreview ==
    [][lastOp' \in {"grayscale rejected", "invert rejected"}
          => /\ activeLayerIndex' = activeLayerIndex
             /\ layers' = layers]_vars

\* An invert preview that shows another picture than the layer's has been
\* rejected on a layer that holds a snapshot.
C10_Witness ==
    /\ lastOp = "invert rejected"
    /\ Active.undoStack # <<>>
    /\ InvertPreview(Active.image) # Active.image

\* C11: accepting a grayscale or invert preview makes the filtered copy the
\* active layer's buffer, and an undo() right after it brings back the
\* buffer the filter found.
C11_AcceptedFilterUndoable ==
    [][/\ lastOp' = "grayscale accepted"
             => layers'[activeLayerIndex' + 1].image = GrayPreview(Active.image)
       /\ lastOp' = "invert accepted"
             => layers'[activeLayerIndex' + 1].image = InvertPreview(Active.image)
       /\ (lastOp \in {"grayscale accepted", "invert accepted"} /\ lastOp' = "undo")
             => /\ runPre # <<>>
                /\ layers'[activeLayerIndex' + 1].image = Last(runPre)]_vars

\* An undo() has taken back a grayscale filter that had changed the buffer.
C11_Witness ==
    /\ lastOp = "undo"
    /\ undoing
    /\ Active.redoStack # <<>>
    /\ Last(Active.redoStack) = GrayPreview(Active.image)
    /\ Last(Active.redoStack) # Active.image

\* C12: an accepted grayscale or invert leaves the alpha of every pixel of
\* the active layer's buffer as it was before the filter.
C12_FiltersKeepAlpha ==
    [][lastOp' \in {"grayscale accepted", "invert accepted"}
          => /\ layers'[activeLayerIndex' + 1].image.w = Active.image.w
             /\ layers'[activeLayerIndex' + 1].image.h = Active.image.h
             /\ \A p \in Coords(Active.image.w, Active.image.h) :
                   layers'[activeLayerIndex' + 1].image.px[p][4] = Active.image.px[p][4]]_vars

\* C13: for the display point of a press, widgetToImage yields the
\* out-of-bounds point or a point inside the target image.
C13_MappedPointInBounds ==
    [][lastOp' = "press"
          => LET r == widgetToImage(St, pressedAt', TargetW(St), TargetH(St))
             IN \/ r = NoPoint
                \/ /\ 0 <= r[1] /\ r[1] < TargetW(St)
                   /\ 0 <= r[2] /\ r[2] < TargetH(St)]_vars

\* C14: a press at the display position of an image point p inside the
\* target image maps back to a valid point at most 1 away from p in each
\* coordinate.
C14_RoundTripWithinOne ==
    [][lastOp' = "press"
          => \A p \in Coords(TargetW(St), TargetH(St)) :
                (~ProductOnBoundary(St, p) /\ imageToWidget(St, p) = pressedAt')
                => LET r == widgetToImage(St, pressedAt', TargetW(St), TargetH(St))
                   IN /\ r # NoPoint
                      /\ r[1] - p[1] \in {-1, 0, 1}
                      /\ r[2] - p[2] \in {-1, 0, 1}]_vars

\* C15: what compositeLayers computes for a single layer is that layer's
\* buffer, and a layer above the bottom one whose opacity is 0 adds nothing:
\* the composite is that of the stack without it.
C15_CompositeOfOneAndOfHidden ==
    /\ Len(layers) = 1 => compositeLayers(St).composite = layers[1].image
    /\ \A i \in 2..Len(layers) :
          layers[i].opacity = 0
          => compositeLayers(St).composite = Composed(RemoveAt(layers, i - 1))

\* A layer with a pixel that is not transparent has been given opacity 0,
\* and the composite is the one computed for the stack.
C15_Witness ==
    /\ lastOp = "contextMenu changeLayerOpacity"
    /\ composite = Composed(layers)
    /\ \E i \in 2..Len(layers) :
          /\ layers[i].opacity = 0
          /\ \E p \in Coords(layers[i].image.w, layers[i].image.h) :
                layers[i].image.px[p][4] > 0

\* The handlers that change a layer's pixels, a layer's opacity or the set of
\* layers.
CompositingOps ==
    PixelOps \cup {"undo", "redo", "openFile", "addLayer", "removeLayer",
                   "contextMenu duplicateLayer", "contextMenu deleteLayer",
                   "contextMenu changeLayerOpacity"}

\* C16: after a handler that changes a layer's pixels, a layer's opacity or
\* the set of layers, the canvas holds the composition of the layers as they
\* are now, bottom to top with their opacities.
C16_CompositeFresh ==
    [][lastOp' \in CompositingOps => composite' = Composed(layers')]_vars

\* A segment of a brush stroke has been painted on a layer above the bottom
\* one, and the composite shows it.
C16_Witness ==
    /\ lastOp = "move"
    /\ strokeOpen
    /\ activeLayerIndex >= 1
    /\ composite = Composed(layers)
    /\ composite # layers[1].image

\* C17: with a rectangular selection, a paste right after the copy leaves
\* every pixel of the selected region of the active layer as it was.
C17_RectCopyPasteKeepsRegion ==
    [][(/\ lastOp = "copy" /\ lastOp' = "paste"
        /\ currentTool = "RECT_SELECT" /\ hasSelection)
          => \A p \in RectPixels(selectionRect) \cap Coords(Active.image.w, Active.image.h) :
                layers'[activeLayerIndex' + 1].image.px[p] = Active.image.px[p]]_vars

\* The pixels of the active layer inside the lasso polygon.
LassoRegion == PolygonPixels(lassoPolygon, Active.image.w, Active.image.h)

\* C18: with a lasso selection, a paste right after the copy leaves every
\* pixel outside the polygon as it was and every pixel inside it equal to
\* the pixel copied from there.
C18_LassoCopyPasteKeepsPixels ==
    [][(/\ lastOp = "copy" /\ lastOp' = "paste"
        /\ currentTool = "LASSO_SELECT" /\ hasSelection)
          => /\ layers'[activeLayerIndex' + 1].image.w = Active.image.w
             /\ layers'[activeLayerIndex' + 1].image.h = Active.image.h
             /\ \A p \in Coords(Active.image.w, Active.image.h) \ LassoRegion :
                   layers'[activeLayerIndex' + 1].image.px[p] = Active.image.px[p]
             /\ \A p \in LassoRegion :
                   layers'[activeLayerIndex' + 1].image.px[p] = Active.image.px[p]]_vars

\* C19: cutSelection with a selection stores what copySelection would store,
\* makes the selected region of the active layer transparent, keeps every
\* pixel outside it, and pushes the buffer it found on the undo stack.
C19_CutClearsSelectedRegion ==
    [][(/\ lastOp' = "cut" /\ hasSelection
        /\ \/ currentTool = "RECT_SELECT" /\ RectPixels(selectionRect) # {}
           \/ currentTool = "LASSO_SELECT" /\ LassoRegion # {})
          => LET region == IF currentTool = "RECT_SELECT"
                           THEN RectPixels(selectionRect) ELSE LassoRegion
             IN /\ selectionBuffer' = copySelection(St).selectionBuffer
                /\ layers'[activeLayerIndex' + 1].undoStack
                      = TrimUndo(Append(Active.undoStack, Active.image))
                /\ \A p \in Coords(Active.image.w, Active.image.h) :
                      layers'[activeLayerIndex' + 1].image.px[p]
                         = IF p \in region THEN Transparent ELSE Active.image.px[p]]_vars

\* A copy or a cut taken with no selection, or a paste taken with an empty
\* clipboard.
NoOpCondition ==
    \/ lastOp' \in {"copy", "cut"} /\ ~hasSelection
    \/ lastOp' = "paste" /\ isNullImage(selectionBuffer)

\* C20: copySelection and cutSelection with no selection, and pasteSelection
\* with an empty clipboard, change no layer buffer, no undo or redo stack and
\* not the clipboard, and the status text reports the condition: it is a new
\* message unless the same refused operation was the one before.
C20_NoOpReported ==
    [][NoOpCondition
          => /\ layers' = layers
             /\ selectionBuffer' = selectionBuffer
             /\ statusText' # statusText \/ lastOp' = lastOp]_vars

\* C21: in a pointer gesture no pixel of a layer is written unless
\* strokeStarted, which pushes the undo snapshot, was emitted earlier in the
\* same gesture; a press that maps outside the image followed by moves inside
\* it with the button held writes nothing.
C21_NoWriteBeforeStrokeStarted ==
    [][(/\ lastOp' \in {"move", "release"}
        /\ \E i \in 1..Len(layers) : layers'[i].image # layers[i].image)
          => strokeOpen]_vars

\* The outline of rectangle r.
RectBorder(r) ==
    {p \in RectPixels(r) : p[1] \in {r.x1, r.x2} \/ p[2] \in {r.y1, r.y2}}

\* QRect(a, b).normalized()
NormalizedRect(a, b) ==
    MkRect(<<Min(a[1], b[1]), Min(a[2], b[2])>>, <<Max(a[1], b[1]), Max(a[2], b[2])>>)

\* C22: with Line, Rectangle or Ellipse active a press inside the image writes
\* no pixel, and the release inside the image that follows commits one
\* primitive from the anchor to the release point into the active layer: the
\* line's pixels, the outline of the normalized rectangle, or an outline that
\* lies within the normalized rectangle, in the pen colour.
C22_ReleaseCommitsShape ==
    [][(/\ lastOp' \in {"press", "release"}
        /\ currentTool \in {"LINE", "RECTANGLE", "CIRCLE"}
        /\ widgetToImage(St, pressedAt', TargetW(St), TargetH(St)) # NoPoint)
          => LET pt == widgetToImage(St, pressedAt', TargetW(St), TargetH(St))
                 old == Active.image
                 new == layers'[activeLayerIndex' + 1].image
                 box == NormalizedRect(startPoint, pt)
             IN IF lastOp' = "press" THEN new = old
                ELSE strokeOpen =>
                     CASE currentTool = "LINE" ->
                             new = PaintPixels(old, SegmentPixels(startPoint, pt), penColor)
                       [] currentTool = "RECTANGLE" ->
                             new = PaintPixels(old, RectBorder(box), penColor)
                       [] currentTool = "CIRCLE" ->
                             /\ \E p \in RectPixels(box) :
                                   new.px[p] = SourceOver(penColor, old.px[p])
                             /\ \A p \in Coords(old.w, old.h) \ RectPixels(box) :
                                   new.px[p] = old.px[p]]_vars

\* C23: every release of the left button finishes the gesture, wherever it
\* maps and whatever the tool: anchor and last point are reset and no
\* selection is in progress; a release that maps outside the image commits
\* no geometry and no selection.
C23_ReleaseFinishesGesture ==
    [][lastOp' = "release"
          => /\ startPoint' = NoPoint
             /\ lastPoint' = NoPoint
             /\ ~selecting'
             /\ widgetToImage(St, pressedAt', TargetW(St), TargetH(St)) = NoPoint
                   => /\ \A i \in 1..Len(layers) : layers'[i].image = layers[i].image
                      /\ hasSelection' = hasSelection]_vars

\* C24: while the tool is Eraser every stroke segment clears the pixels it
\* covers to transparent, whatever colour was chosen since the tool was
\* selected; while the tool is Brush every segment paints the pen colour.
C24_EraserClearsBrushPaints ==
    [][(/\ lastOp' = "move"
        /\ currentTool \in {"BRUSH", "ERASER"}
        /\ widgetToImage(St, pressedAt', TargetW(St), TargetH(St)) # NoPoint)
          => LET pt == widgetToImage(St, pressedAt', TargetW(St), TargetH(St))
                 old == Active.image
                 new == layers'[activeLayerIndex' + 1].image
                 ps == SegmentPixels(lastPoint, pt)
             IN IF currentTool = "ERASER" THEN new = ClearPixels(old, ps)
                ELSE new = PaintPixels(old, ps, penColor)]_vars

\* C25: activating a tool other than Text rasterizes the pending text items
\* into the active layer in list order and empties the pending list, so that
\* the list is empty whenever the tool is not Text.
C25_ToolSwitchCommitsText ==
    [][lastOp' \in {"selectBrush", "selectEraser", "selectShapeTool"}
          => /\ textItems' = <<>>
             /\ layers'[activeLayerIndex' + 1].image
                   = DrawTextItems(Active.image, textItems, 1)]_vars

\* The requests whose prompt was cancelled, and the failed decode.
CancelOps ==
    {"openFile cancelled", "openFile failed", "press cancelled",
     "contextMenu renameLayer cancelled", "contextMenu changeLayerOpacity cancelled"}

\* C26: cancelling a prompt, or a failed decode, leaves every layer's
\* buffer, name, opacity, undo stack and redo stack and the pending text
\* list as they were before the request.
C26_CancelChangesNothing ==
    [][lastOp' \in CancelOps => layers' = layers /\ textItems' = textItems]_vars

\* C27: on a 2x2 fully transparent active layer, a press and a release at
\* (0,0) with the brush in opaque red make pixel (0,0) red and leave the
\* three others transparent; the undo that follows makes all four
\* transparent.
C27_BrushPointThenUndo ==
    [][/\ (/\ lastOp = "press" /\ pressedAt = <<0, 0>>
           /\ lastOp' = "release" /\ pressedAt' = <<0, 0>>
           /\ currentTool = "BRUSH" /\ ~eraserMode /\ penColor = Red
           /\ Active.undoStack = <<BlankImage>>)
             => layers'[activeLayerIndex' + 1].image
                   = PaintPixels(BlankImage, {<<0, 0>>}, Red)
       /\ (/\ lastOp = "release" /\ pressedAt = <<0, 0>> /\ lastOp' = "undo"
           /\ currentTool = "BRUSH" /\ Active.undoStack = <<BlankImage>>)
             => layers'[activeLayerIndex' + 1].image = BlankImage]_vars

\* C28: after any sequence of addLayer, duplicateLayer, removeLayer,
\* deleteLayer and renameLayer the layer panel has one row per layer, and
\* row r shows the name of the layer at index length - 1 - r.
C28_PanelListsLayersTopFirst ==
    /\ Len(listRows) = Len(layers)
    /\ \A r \in 0..(Len(listRows) - 1) : listRows[r + 1] = layers[Len(layers) - r].name

\* The middle one of three layers was renamed from the context menu of its row.
C28_Witness ==
    /\ lastOp = "contextMenu renameLayer"
    /\ Len(layers) = 3
    /\ currentRow = 1
    /\ listRows[2] = <<"Renamed">>

\* C29: after every structural layer operation the current row of the layer
\* panel denotes the active layer.
C29_CurrentRowIsActiveLayer == activeLayerIndex = Len(layers) - 1 - currentRow

\* The bottom row of three was made current after a layer was added.
C29_Witness ==
    /\ lastOp = "activateLayer"
    /\ Len(layers) = 3
    /\ currentRow = 2
    /\ activeLayerIndex = 0

\* C30: pasteSelection blits the clipboard at the top-left the selection had
\* when it was copied or cut, wherever the selection is at the paste.
C30_PasteAtCapturedAnchor ==
    [][(lastOp' = "paste" /\ ~isNullImage(selectionBuffer))
          => layers'[activeLayerIndex' + 1].image
                = DrawImage(Active.image, copiedAt, selectionBuffer, 255)]_vars

\* QPolygon::boundingRect of a polygon with at least one point.
BoundingRect(poly) ==
    LET xs == {poly[i][1] : i \in 1..Len(poly)}
        ys == {poly[i][2] : i \in 1..Len(poly)}
        Least(S) == CHOOSE m \in S : \A n \in S : m <= n
        Most(S) == CHOOSE m \in S : \A n \in S : m >= n
    IN MkRect(<<Least(xs), Least(ys)>>, <<Most(xs), Most(ys)>>)

\* C31: the buffer a copy stores for a lasso selection has the size of the
\* bounding rectangle of the polygon of the gesture, and each of its pixels
\* that lies outside the polygon is transparent, whatever rectangle was
\* selected before.
C31_LassoCopySizedByPolygon ==
    [][(/\ lastOp' = "copy" /\ hasSelection
        /\ currentTool = "LASSO_SELECT" /\ lassoPolygon # <<>>)
          => LET box == BoundingRect(lassoPolygon)
                 buf == selectionBuffer'
             IN /\ buf.w = RectWidth(box)
                /\ buf.h = RectHeight(box)
                /\ \A p \in Coords(buf.w, buf.h) :
                      <<p[1] + box.x1, p[2] + box.y1>> \notin LassoRegion
                         => buf.px[p] = Transparent]_vars

\* C32: after a gesture of the rectangular selection tool the stored
\* rectangle is normalized and spans the anchor and the last point, and the
\* selection is marked valid exactly when the rectangle is not empty.
C32_RectSelectionNormalized ==
    [][(lastOp' = "release" /\ currentTool = "RECT_SELECT" /\ selecting)
          => /\ selectionRect'.x1 <= selectionRect'.x2
             /\ selectionRect'.y1 <= selectionRect'.y2
             /\ startPoint \in RectPixels(selectionRect')
             /\ hasSelection' = (RectPixels(selectionRect') # {})]_vars

\* C34: whenever copySelection reports "Selection copied" or cutSelection
\* reports "Selection cut", the clipboard then holds a buffer that is not
\* empty, also after the tool was switched since the selection was made
\* (stated for a selection whose stored rectangle holds at least one pixel).
C34_ReportedCopyHoldsPixels ==
    [][(/\ lastOp' \in {"copy", "cut"}
        /\ RectPixels(selectionRect) # {}
        /\ statusText' \in {<<"Selection copied">>, <<"Selection cut">>})
          => ~isNullImage(selectionBuffer')]_vars

\* C35: after every completed operation of MainWindow the buffer the canvas
\* draws into is the buffer of the layer at activeLayerIndex, a layer of the
\* stack.
C35_TargetIsActiveLayer ==
    /\ targetImg = activeLayerIndex
    /\ activeLayerIndex \in 0..(Len(layers) - 1)

\* A lower layer was made active by a click on its row.
C35_Witness ==
    /\ lastOp = "activateLayer"
    /\ targetImg = 0
    /\ Len(layers) > 1

\* C36: a layer created by addLayer or duplicateLayer starts with an empty
\* undo stack and an empty redo stack.
C36_NewLayerHasNoHistory ==
    [][lastOp' \in {"addLayer", "contextMenu duplicateLayer"}
          => /\ layers'[Len(layers')].undoStack = <<>>
             /\ layers'[Len(layers')].redoStack = <<>>]_vars

\* C37: a step of a selection gesture, which writes no pixel of the active
\* layer, leaves the undo stack and the redo stack of the active layer
\* unchanged.
C37_SelectionGestureKeepsHistory ==
    [][(/\ lastOp' \in {"press", "move", "release"}
        /\ currentTool \in {"RECT_SELECT", "LASSO_SELECT"})
          => /\ layers'[activeLayerIndex + 1].undoStack = Active.undoStack
             /\ layers'[activeLayerIndex + 1].redoStack = Active.redoStack]_vars

\* C38: activateLayer changes no layer: every buffer, with its size, and
\* every undo and redo stack is what it was.
C38_ActivateLayerKeepsLayers ==
    [][lastOp' = "activateLayer" => layers' = layers]_vars

\* The image point of the display point pos, NoPoint outside the image.
ImagePoint(pos) ==
    IF pos = NoPoint THEN NoPoint ELSE widgetToImage(St, pos, TargetW(St), TargetH(St))

\* The pending text items whose bounding box holds the image point pt.
HitItems(pt) == {i \in 1..Len(textItems) : TextHit(textItems[i], pt)}

\* C33: with the text tool, a pointer-down inside the bounding box of pending
\* text items selects the last-added of them and moves none; each following
\* pointer-move inside the image translates that item by the difference
\* between the pointer's position and its previous position and leaves the
\* other items as they are.
C33_TextDragMovesTopmostHit ==
    [][LET cur == ImagePoint(pressedAt')
           prev == ImagePoint(pressedAt)
           a == activeTextIndex + 1
       IN /\ (/\ lastOp' = "press" /\ currentTool = "TEXT"
              /\ cur # NoPoint /\ HitItems(cur) # {})
                => /\ activeTextIndex' + 1 \in HitItems(cur)
                   /\ \A i \in HitItems(cur) : i <= activeTextIndex' + 1
                   /\ textItems'[activeTextIndex' + 1].selected
                   /\ \A i \in 1..Len(textItems) :
                         textItems'[i].position = textItems[i].position
          /\ (/\ lastOp' = "move" /\ currentTool = "TEXT"
              /\ lastOp \in {"press", "move"}
              /\ a >= 1 /\ textItems[a].selected
              /\ cur # NoPoint /\ prev # NoPoint)
                => textItems' = [textItems EXCEPT ![a].position =
                                    <<@[1] + cur[1] - prev[1], @[2] + cur[2] - prev[2]>>]]_vars

\* Two items lay under the pointer-down at (1,0); the later one was taken and
\* dragged one pixel to the left.
C33_Witness ==
    /\ lastOp = "move"
    /\ Len(textItems) = 2
    /\ activeTextIndex = 1
    /\ textItems[1].position = <<1, 0>>
    /\ textItems[2].text = "AB"
    /\ textItems[2].selected
    /\ textItems[2].position = <<-1, 0>>
    /\ ~textItems[1].selected

\* C39: at most one pending text item has its selected flag set, and an item
\* whose flag is set is the item at activeTextIndex.
C39_OnlyActiveTextSelected ==
    \A i \in 1..Len(textItems) : textItems[i].selected => activeTextIndex = i - 1

\* C40: a pointer-move leaves a text item that no pointer-down has hit where
\* it is, or translates it by the movement of the pointer since the previous
\* pointer event.
C40_NewTextStaysPut ==
    [][(lastOp' = "move" /\ currentTool = "TEXT")
          => LET cur == ImagePoint(pressedAt')
                 prev == ImagePoint(pressedAt)
             IN \A i \in 1..Len(textItems) :
                   ~textItems[i].selected
                      => \/ textItems'[i].position = textItems[i].position
                         \/ /\ cur # NoPoint /\ prev # NoPoint
                            /\ textItems'[i].position =
                                  <<textItems[i].position[1] + cur[1] - prev[1],
                                    textItems[i].position[2] + cur[2] - prev[2]>>]_vars

====
